---- MODULE Spec2Model ----
(***************************************************************************)
(* costpuller: the Cloudability / IBM Cloud ingest pipeline of main(),     *)
(* the account directory (getAccountMetadata), the sheet materializer      *)
(* (getSheetFromCostCells) and the AWS deviation check                     *)
(* (AwsPuller.CheckResponseConsistency).                                   *)
(*                                                                         *)
(* Amounts are whole numbers of currency units; strings are TLA+ strings   *)
(* except where the code looks inside them (account IDs in the directory   *)
(* loader, column references), where they are sequences of characters.     *)
(***************************************************************************)
EXTENDS Integers, Sequences, FiniteSets, Bags, TLC

(***************************************************************************)
(* Bounds of the model.                                                    *)
(***************************************************************************)
MaxCldy == 2        \* records in the Cloudability response
MaxIbm == 2         \* account summaries in the IBM Cloud response
MaxResources == 2   \* resources per IBM Cloud account summary

(***************************************************************************)
(* Small universes the inputs are drawn from.                              *)
(***************************************************************************)
AccountIds == {"A", "B", "U"}          \* canonical IDs seen in source records
TrackedIds == {"A", "B"}               \* IDs the accounts file may declare
\* (provider, team) pairs under which the accounts file may declare an ID
Declarations == {<<"Amazon", "X">>, <<"AWS", "X">>, <<"IBMCloud", "Y">>}
RecProviders == {"Amazon", "IBMCloud"}
CostCenters == {"726", "999"}
Names == {"n1"}
Families == {"Compute", "Storage"}
CostStrings == {"1", "2", "bad"}
Month == "2024-08"

\* the cost_center key of the "cloudability" / "ibmcloud" configuration
ourCostCenter == "726"
\* the name of the IBM Cloud account group (getAccountGroupName)
ibmGroupName == "726"

NoFatal == [kind |-> "none"]

VARIABLES
    pc,               \* position of main() in the pipeline
    accountsMetadata, \* the account directory: key -> AccountMetadata
    costCells,        \* the sparse grid: account -> (category -> amount)
    columnHeadsSet,   \* the discovered categories
    metadata,         \* account -> providerAccountMetadata
    ignored,          \* warning-dedupe set of the running source pass
    logged,           \* bag of the warnings written to the log
    fatalMsg,         \* the log.Fatalf that ended the run, if any
    nCldy,            \* Cloudability records consumed so far
    nIbm,             \* IBM Cloud account summaries consumed so far
    fetchIbmcloudData,\* the configuration has an "ibmcloud" section
    output,           \* the materialized sheet (sequence of rows)
    \* getAccountMetadata (the directory loader)
    providers,        \* the declared accounts of the accounts file
    loaded,           \* indices of the declared accounts already handled
    dirMetadata,      \* the map under construction: key -> AccountMetadata
    dirState,         \* "load", "done" or "fatal"
    \* AwsPuller.CheckResponseConsistency
    account,          \* the AccountEntry checked
    results,          \* the per-service costs of the account
    checked,          \* the call's return values, once it has returned
    \* main() of costpuller.go in the modes "aws" and "crosscheck"
    mode,             \* the --mode option
    accountList,      \* the declared accounts, in the order they are pulled
    cur,              \* index in accountList of the account being pulled
    step,             \* position of main() in the loop over the accounts
    report,           \* the lines written to the report file
    sheetData,        \* the rows pullAwsByAccount has built
    csvData,          \* the rows pullCostManagement has built
    totalAws,         \* total returned by pullAwsAccount for the account
    totalCM,          \* total returned by pullCostManagement for the account
    awsResponse,      \* the answer of Cost Explorer being handled
    cmResponse,       \* the answer of the cost management service being handled
    \* postToGSheet
    postPc,           \* position of postToGSheet
    sheetObject,      \* the spreadsheet's sheets: title -> properties
    mainCells,        \* the values of the main sheet's cells
    requests,         \* the update requests sent to the service so far
    newDataRef,       \* the GridRange returned by getUpdateLocation
    mainSheetRef,     \* the GridRange returned by getNewSheetReference
    \* main() of the bulk mode: configuration reads and network requests
    runPc,            \* position of main()
    configuration,    \* the keys present in the accounts file's configuration
    malformed,        \* the accounts file declares a malformed account ID
    network,          \* the network requests issued so far, in order
    \* redirectListener
    listenerPc,       \* position of redirectListener
    server,           \* state of the http.Server
    handler,          \* request -> position of its handler goroutine
    shutdown,         \* request -> position of its requestShutdown goroutine
    queryParams,      \* the variable the handlers assign
    returnedParams    \* the value redirectListener has returned

pipeVars == <<pc, accountsMetadata, costCells, columnHeadsSet, metadata, ignored,
              logged, fatalMsg, nCldy, nIbm, fetchIbmcloudData, output>>

dirVars == <<providers, loaded, dirMetadata, dirState>>

devVars == <<account, results, checked>>

pullVars == <<mode, accountList, cur, step, report, sheetData, csvData,
              totalAws, totalCM, awsResponse, cmResponse>>

postVars == <<postPc, sheetObject, mainCells, requests, newDataRef, mainSheetRef>>

runVars == <<runPc, configuration, malformed, network>>

oauthVars == <<listenerPc, server, handler, shutdown, queryParams, returnedParams>>

vars == <<pipeVars, dirVars, devVars, pullVars, postVars, runVars, oauthVars>>

(***************************************************************************)
(* Helpers on partial maps (Go maps).                                      *)
(***************************************************************************)
MapPut(m, k, v) == [x \in DOMAIN m \cup {k} |-> IF x = k THEN v ELSE m[x]]

EmptyMap == <<>>

RECURSIVE SumSet(_, _)
SumSet(f, S) ==
    IF S = {} THEN 0
    ELSE LET x == CHOOSE y \in S : TRUE IN f[x] + SumSet(f, S \ {x})

\* strconv.ParseFloat on the cost strings of the model
ParseFloat(s) ==
    IF s = "1" THEN [ok |-> TRUE, val |-> 1]
    ELSE IF s = "2" THEN [ok |-> TRUE, val |-> 2]
    ELSE [ok |-> FALSE, val |-> 0]

(***************************************************************************)
(* The records of the two bulk sources.                                    *)
(***************************************************************************)
ResultsEntry ==
    [AccountID : AccountIds, AccountName : Names, CloudProvider : RecProviders,
     Cost : CostStrings, CostCenter : CostCenters, PayerAccountId : {"P"},
     UsageFamily : Families]

\* the resources an IBM Cloud account summary may list; "Mystery" is a
\* resource name the switch does not know
Resource ==
    {[ResourceName |-> "Cloud Object Storage", BillableCost |-> 1],
     [ResourceName |-> "Block Storage for VPC", BillableCost |-> 2],
     [ResourceName |-> "Mystery", BillableCost |-> 1]}

ResourceLists ==
    UNION {[1..n -> Resource] : n \in 0..MaxResources}

IbmcResultsEntry ==
    [AccountID : AccountIds, AccountName : Names, CloudProvider : {"IBMCloud"},
     CostCenter : {ibmGroupName}, PayerAccountId : {"P"},
     AccountResources : ResourceLists]

(***************************************************************************)
(* skipAccountEntry: the outcome for one record, given the directory and   *)
(* the dedupe set.  skip: the record is dropped; dir, ign: the directory   *)
(* and the dedupe set afterwards; warn: the warnings it logs.              *)
(***************************************************************************)
skipAccountEntry_NoAlias(dir, accountId, costCenter, providerConfigName, accountName, ign, dataSource) ==
    IF accountId \notin DOMAIN dir
    THEN [skip |-> TRUE,
          dir |-> dir,
          ign |-> ign \cup {accountId},
          warn |-> IF accountId \notin ign /\ costCenter = ourCostCenter
                   THEN {[kind |-> "not tracked", source |-> dataSource,
                          account |-> accountId]}
                   ELSE {}]
    ELSE LET am == dir[accountId]
             differs == am.CloudProvider # providerConfigName
         IN [skip |-> FALSE,
             dir |-> [dir EXCEPT ![accountId] =
                        [am EXCEPT !.CloudProvider =
                                      IF differs THEN providerConfigName ELSE @,
                                   !.DataFound = TRUE]],
             ign |-> ign,
             warn |-> IF differs
                      THEN {[kind |-> "provider", source |-> dataSource,
                             account |-> accountId]}
                      ELSE {}]

skipAccountEntry_WarnAlways(dir, accountId, costCenter, providerConfigName, accountName, ign, dataSource) ==
    IF accountId \notin DOMAIN dir
    THEN [skip |-> TRUE,
          dir |-> dir,
          ign |-> ign \cup {accountId},
          warn |-> IF costCenter = ourCostCenter
                   THEN {[kind |-> "not tracked", source |-> dataSource,
                          account |-> accountId]}
                   ELSE {}]
    ELSE LET am == dir[accountId]
             differs == /\ am.CloudProvider # providerConfigName
                        /\ ~(providerConfigName = "Amazon" /\ am.CloudProvider = "AWS")
         IN [skip |-> FALSE,
             dir |-> [dir EXCEPT ![accountId] =
                        [am EXCEPT !.CloudProvider =
                                      IF differs THEN providerConfigName ELSE @,
                                   !.DataFound = TRUE]],
             ign |-> ign,
             warn |-> IF differs
                      THEN {[kind |-> "provider", source |-> dataSource,
                             account |-> accountId]}
                      ELSE {}]

\* a variant that does not mark the entry as found
skipAccountEntry_NoMark(dir, accountId, costCenter, providerConfigName, accountName, ign, dataSource) ==
    IF accountId \notin DOMAIN dir
    THEN [skip |-> TRUE,
          dir |-> dir,
          ign |-> ign \cup {accountId},
          warn |-> IF accountId \notin ign /\ costCenter = ourCostCenter
                   THEN {[kind |-> "not tracked", source |-> dataSource,
                          account |-> accountId]}
                   ELSE {}]
    ELSE LET am == dir[accountId]
             differs == /\ am.CloudProvider # providerConfigName
                        /\ ~(providerConfigName = "Amazon" /\ am.CloudProvider = "AWS")
         IN [skip |-> FALSE,
             dir |-> [dir EXCEPT ![accountId] =
                        [am EXCEPT !.CloudProvider =
                                      IF differs THEN providerConfigName ELSE @,
                                   !.DataFound = @]],
             ign |-> ign,
             warn |-> IF differs
                      THEN {[kind |-> "provider", source |-> dataSource,
                             account |-> accountId]}
                      ELSE {}]

\* a variant whose lookup of an unknown account leaves an entry behind
skipAccountEntry_InsertsUnknown(dir, accountId, costCenter, providerConfigName, accountName, ign, dataSource) ==
    IF accountId \notin DOMAIN dir
    THEN [skip |-> TRUE,
          dir |-> MapPut(dir, accountId,
                         [AccountId |-> accountId, CloudProvider |-> providerConfigName,
                          DataFound |-> FALSE, Group |-> "X"]),
          ign |-> ign \cup {accountId},
          warn |-> IF accountId \notin ign /\ costCenter = ourCostCenter
                   THEN {[kind |-> "not tracked", source |-> dataSource,
                          account |-> accountId]}
                   ELSE {}]
    ELSE LET am == dir[accountId]
             differs == /\ am.CloudProvider # providerConfigName
                        /\ ~(providerConfigName = "Amazon" /\ am.CloudProvider = "AWS")
         IN [skip |-> FALSE,
             dir |-> [dir EXCEPT ![accountId] =
                        [am EXCEPT !.CloudProvider =
                                      IF differs THEN providerConfigName ELSE @,
                                   !.DataFound = TRUE]],
             ign |-> ign,
             warn |-> IF differs
                      THEN {[kind |-> "provider", source |-> dataSource,
                             account |-> accountId]}
                      ELSE {}]

skipAccountEntry(dir, accountId, costCenter, providerConfigName, accountName, ign, dataSource) ==
    IF accountId \notin DOMAIN dir
    THEN [skip |-> TRUE,
          dir |-> dir,
          ign |-> ign \cup {accountId},
          warn |-> IF accountId \notin ign /\ costCenter = ourCostCenter
                   THEN {[kind |-> "not tracked", source |-> dataSource,
                          account |-> accountId]}
                   ELSE {}]
    ELSE LET am == dir[accountId]
             differs == /\ am.CloudProvider # providerConfigName
                        /\ ~(providerConfigName = "Amazon" /\ am.CloudProvider = "AWS")
         IN [skip |-> FALSE,
             dir |-> [dir EXCEPT ![accountId] =
                        [am EXCEPT !.CloudProvider =
                                      IF differs THEN providerConfigName ELSE @,
                                   !.DataFound = TRUE]],
             ign |-> ign,
             warn |-> IF differs
                      THEN {[kind |-> "provider", source |-> dataSource,
                             account |-> accountId]}
                      ELSE {}]

(***************************************************************************)
(* getSheetDataFromCloudability, the capture of one cost: the row is       *)
(* created on first use; a cell that is already written is fatal.          *)
(***************************************************************************)
CaptureCost_Overwrite(cells, accountId, usageFamily, cost) ==
    LET row == IF accountId \in DOMAIN cells THEN cells[accountId] ELSE EmptyMap
    IN [fatal |-> FALSE,
        cells |-> MapPut(cells, accountId, MapPut(row, usageFamily, cost))]

CaptureCost(cells, accountId, usageFamily, cost) ==
    LET row == IF accountId \in DOMAIN cells THEN cells[accountId] ELSE EmptyMap
    IN IF usageFamily \in DOMAIN row
       THEN [fatal |-> TRUE, cells |-> cells]
       ELSE [fatal |-> FALSE,
             cells |-> MapPut(cells, accountId, MapPut(row, usageFamily, cost))]

\* an iteration that notes the metadata of every record, not of the first
CldyRecord_LastWins(e) ==
    /\ pc = "cldy"
    /\ nCldy < MaxCldy
    /\ LET r == skipAccountEntry(accountsMetadata, e.AccountID, e.CostCenter,
                                 e.CloudProvider, e.AccountName, ignored,
                                 "Cloudability")
           parsed == ParseFloat(e.Cost)
           cap == CaptureCost(costCells, e.AccountID, e.UsageFamily, parsed.val)
       IN /\ nCldy' = nCldy + 1
          /\ accountsMetadata' = r.dir
          /\ ignored' = r.ign
          /\ logged' = logged (+) SetToBag(r.warn)
          /\ IF r.skip
             THEN UNCHANGED <<pc, costCells, columnHeadsSet, metadata, fatalMsg>>
             ELSE /\ columnHeadsSet' = columnHeadsSet \cup {e.UsageFamily}
                  /\ metadata' =
                       IF FALSE THEN metadata
                       ELSE MapPut(metadata, e.AccountID,
                                   [AccountName |-> e.AccountName,
                                    CloudProvider |-> e.CloudProvider,
                                    CostCenter |-> e.CostCenter,
                                    Date |-> Month,
                                    PayerAccountId |-> e.PayerAccountId])
                  /\ IF ~parsed.ok
                     THEN /\ pc' = "fatal"
                          /\ fatalMsg' = [kind |-> "Error parsing Cost",
                                          account |-> e.AccountID,
                                          category |-> e.UsageFamily]
                          /\ UNCHANGED costCells
                     ELSE IF cap.fatal
                     THEN /\ pc' = "fatal"
                          /\ fatalMsg' = [kind |-> "Duplicate entry",
                                          account |-> e.AccountID,
                                          category |-> e.UsageFamily]
                          /\ UNCHANGED costCells
                     ELSE /\ costCells' = cap.cells
                          /\ UNCHANGED <<pc, fatalMsg>>
    /\ UNCHANGED <<fetchIbmcloudData, nIbm, output>>
    /\ UNCHANGED <<dirVars, devVars, pullVars, postVars, runVars, oauthVars>>

\* one iteration of the loop over cldy.Results
CldyRecord(e) ==
    /\ pc = "cldy"
    /\ nCldy < MaxCldy
    /\ LET r == skipAccountEntry(accountsMetadata, e.AccountID, e.CostCenter,
                                 e.CloudProvider, e.AccountName, ignored,
                                 "Cloudability")
           parsed == ParseFloat(e.Cost)
           cap == CaptureCost(costCells, e.AccountID, e.UsageFamily, parsed.val)
       IN /\ nCldy' = nCldy + 1
          /\ accountsMetadata' = r.dir
          /\ ignored' = r.ign
          /\ logged' = logged (+) SetToBag(r.warn)
          /\ IF r.skip
             THEN UNCHANGED <<pc, costCells, columnHeadsSet, metadata, fatalMsg>>
             ELSE /\ columnHeadsSet' = columnHeadsSet \cup {e.UsageFamily}
                  /\ metadata' =
                       IF e.AccountID \in DOMAIN metadata THEN metadata
                       ELSE MapPut(metadata, e.AccountID,
                                   [AccountName |-> e.AccountName,
                                    CloudProvider |-> e.CloudProvider,
                                    CostCenter |-> e.CostCenter,
                                    Date |-> Month,
                                    PayerAccountId |-> e.PayerAccountId])
                  /\ IF ~parsed.ok
                     THEN /\ pc' = "fatal"
                          /\ fatalMsg' = [kind |-> "Error parsing Cost",
                                          account |-> e.AccountID,
                                          category |-> e.UsageFamily]
                          /\ UNCHANGED costCells
                     ELSE IF cap.fatal
                     THEN /\ pc' = "fatal"
                          /\ fatalMsg' = [kind |-> "Duplicate entry",
                                          account |-> e.AccountID,
                                          category |-> e.UsageFamily]
                          /\ UNCHANGED costCells
                     ELSE /\ costCells' = cap.cells
                          /\ UNCHANGED <<pc, fatalMsg>>
    /\ UNCHANGED <<fetchIbmcloudData, nIbm, output>>
    /\ UNCHANGED <<dirVars, devVars, pullVars, postVars, runVars, oauthVars>>

\* main: an empty Cloudability result set is fatal
NoCloudabilityData ==
    /\ pc = "cldy"
    /\ nCldy = 0
    /\ pc' = "fatal"
    /\ fatalMsg' = [kind |-> "no Cloudability data"]
    /\ UNCHANGED <<accountsMetadata, costCells, columnHeadsSet, metadata,
                   ignored, logged, nCldy, nIbm, fetchIbmcloudData, output>>
    /\ UNCHANGED <<dirVars, devVars, pullVars, postVars, runVars, oauthVars>>

\* the loop over cldy.Results ends; main goes on to IBM Cloud if configured
CldyDone ==
    /\ pc = "cldy"
    /\ nCldy > 0
    /\ pc' = IF fetchIbmcloudData THEN "ibm" ELSE "checkMissing"
    /\ ignored' = {}
    /\ UNCHANGED <<accountsMetadata, costCells, columnHeadsSet, metadata,
                   logged, fatalMsg, nCldy, nIbm, fetchIbmcloudData, output>>
    /\ UNCHANGED <<dirVars, devVars, pullVars, postVars, runVars, oauthVars>>

(***************************************************************************)
(* getSheetDataFromIbmcloud: the bucket of a resource name (the switch),   *)
(* and the accumulation of one account's resources into its row.           *)
(***************************************************************************)
Bucket(resourceName) ==
    CASE resourceName \in {"Block Storage for VPC", "Cloud Object Storage"} -> "Storage"
      [] resourceName \in {"Cloud Activity Tracker", "Cloud Monitoring"} -> "Notifications"
      [] resourceName \in {"Continuous Delivery", "Log Analysis"} -> "Other"
      [] resourceName = "Floating IP for VPC" -> "IP Address"
      [] resourceName = "Kubernetes Service" -> "Instance Usage"
      [] resourceName = "Load Balancer for VPC" -> "Load Balancer"
      [] resourceName = "Virtual Private Cloud" -> "VPN"
      [] resourceName \in {"Virtual Private Endpoint for VPC",
                           "Virtual Server for VPC"} -> "VPC Endpoint"
      [] OTHER -> "Other"

\* costCells[accountId][bucket] += *resource.BillableCost, for resources i..Len
RECURSIVE Accumulate_Overwrite(_, _, _)
Accumulate_Overwrite(row, resources, i) ==
    IF i > Len(resources) THEN row
    ELSE LET bucket == Bucket(resources[i].ResourceName)
         IN Accumulate_Overwrite(MapPut(row, bucket, resources[i].BillableCost),
                                 resources, i + 1)

RECURSIVE Accumulate(_, _, _)
Accumulate(row, resources, i) ==
    IF i > Len(resources) THEN row
    ELSE LET bucket == Bucket(resources[i].ResourceName)
             old == IF bucket \in DOMAIN row THEN row[bucket] ELSE 0
         IN Accumulate(MapPut(row, bucket, old + resources[i].BillableCost),
                       resources, i + 1)

\* an iteration that adds the resources to the row the account has
IbmAccount_AddsToRow(s) ==
    /\ pc = "ibm"
    /\ nIbm < MaxIbm
    /\ LET r == skipAccountEntry(accountsMetadata, s.AccountID, s.CostCenter,
                                 s.CloudProvider, s.AccountName, ignored,
                                 "IBM Cloud")
       IN /\ nIbm' = nIbm + 1
          /\ accountsMetadata' = r.dir
          /\ ignored' = r.ign
          /\ logged' = logged (+) SetToBag(r.warn)
          /\ IF r.skip
             THEN UNCHANGED <<pc, costCells, metadata, fatalMsg>>
             ELSE IF FALSE
             THEN /\ pc' = "fatal"
                  /\ fatalMsg' = [kind |-> "Cost cell row already exists",
                                  account |-> s.AccountID]
                  /\ UNCHANGED <<costCells, metadata>>
             ELSE /\ metadata' = MapPut(metadata, s.AccountID,
                                   [AccountName |-> s.AccountName,
                                    CloudProvider |-> s.CloudProvider,
                                    CostCenter |-> s.CostCenter,
                                    Date |-> Month,
                                    PayerAccountId |-> s.PayerAccountId])
                  /\ costCells' = MapPut(costCells, s.AccountID,
                                         Accumulate(IF s.AccountID \in DOMAIN costCells
                                                    THEN costCells[s.AccountID]
                                                    ELSE EmptyMap,
                                                    s.AccountResources, 1))
                  /\ UNCHANGED <<pc, fatalMsg>>
    /\ UNCHANGED <<columnHeadsSet, fetchIbmcloudData, nCldy, output>>
    /\ UNCHANGED <<dirVars, devVars, pullVars, postVars, runVars, oauthVars>>

\* one iteration of the loop over the IBM Cloud account summaries
IbmAccount(s) ==
    /\ pc = "ibm"
    /\ nIbm < MaxIbm
    /\ LET r == skipAccountEntry(accountsMetadata, s.AccountID, s.CostCenter,
                                 s.CloudProvider, s.AccountName, ignored,
                                 "IBM Cloud")
       IN /\ nIbm' = nIbm + 1
          /\ accountsMetadata' = r.dir
          /\ ignored' = r.ign
          /\ logged' = logged (+) SetToBag(r.warn)
          /\ IF r.skip
             THEN UNCHANGED <<pc, costCells, metadata, fatalMsg>>
             ELSE IF s.AccountID \in DOMAIN costCells
             THEN /\ pc' = "fatal"
                  /\ fatalMsg' = [kind |-> "Cost cell row already exists",
                                  account |-> s.AccountID]
                  /\ UNCHANGED <<costCells, metadata>>
             ELSE /\ metadata' = MapPut(metadata, s.AccountID,
                                   [AccountName |-> s.AccountName,
                                    CloudProvider |-> s.CloudProvider,
                                    CostCenter |-> s.CostCenter,
                                    Date |-> Month,
                                    PayerAccountId |-> s.PayerAccountId])
                  /\ costCells' = MapPut(costCells, s.AccountID,
                                         Accumulate(EmptyMap, s.AccountResources, 1))
                  /\ UNCHANGED <<pc, fatalMsg>>
    /\ UNCHANGED <<columnHeadsSet, fetchIbmcloudData, nCldy, output>>
    /\ UNCHANGED <<dirVars, devVars, pullVars, postVars, runVars, oauthVars>>

\* main: an empty IBM Cloud result is fatal
NoIbmData ==
    /\ pc = "ibm"
    /\ nIbm = 0
    /\ pc' = "fatal"
    /\ fatalMsg' = [kind |-> "no IBM Cloud data"]
    /\ UNCHANGED <<accountsMetadata, costCells, columnHeadsSet, metadata,
                   ignored, logged, nCldy, nIbm, fetchIbmcloudData, output>>
    /\ UNCHANGED <<dirVars, devVars, pullVars, postVars, runVars, oauthVars>>

IbmDone ==
    /\ pc = "ibm"
    /\ nIbm > 0
    /\ pc' = "checkMissing"
    /\ UNCHANGED <<accountsMetadata, costCells, columnHeadsSet, metadata,
                   ignored, logged, fatalMsg, nCldy, nIbm,
                   fetchIbmcloudData, output>>
    /\ UNCHANGED <<dirVars, devVars, pullVars, postVars, runVars, oauthVars>>

(***************************************************************************)
(* checkMissing: one warning per directory entry without data.             *)
(***************************************************************************)
MissingWarnings_All(dir) ==
    {[kind |-> "no data source", source |-> "accounts file", account |-> id] :
        id \in DOMAIN dir}

MissingWarnings(dir) ==
    {[kind |-> "no data source", source |-> "accounts file", account |-> id] :
        id \in {k \in DOMAIN dir : ~dir[k].DataFound}}

checkMissing ==
    /\ pc = "checkMissing"
    /\ logged' = logged (+) SetToBag(MissingWarnings(accountsMetadata))
    /\ pc' = "materialize"
    /\ UNCHANGED <<accountsMetadata, costCells, columnHeadsSet, metadata,
                   ignored, fatalMsg, nCldy, nIbm, fetchIbmcloudData, output>>
    /\ UNCHANGED <<dirVars, devVars, pullVars, postVars, runVars, oauthVars>>

(***************************************************************************)
(* String comparison (sort.Strings, cmp.Compare): byte-wise lexicographic. *)
(* Lex lists every string the model sorts, in that order.                  *)
(***************************************************************************)
Lex == <<"1-2", "12", "3", "A", "AWS", "Amazon", "B", "Compute", "IBMCloud", "IP Address",
         "Instance Usage", "Load Balancer", "Notifications", "Other",
         "Storage", "U", "VPC Endpoint", "VPN", "X", "Y">>

Rank(str) == CHOOSE i \in 1..Len(Lex) : Lex[i] = str

\* cmp.Compare(a, b) < 0, = 0, > 0
Compare(a, b) ==
    IF Rank(a) < Rank(b) THEN -1 ELSE IF Rank(a) > Rank(b) THEN 1 ELSE 0

\* sortedKeys: the keys of a map (here: a set of strings), sorted
RECURSIVE sortedKeys(_)
sortedKeys(S) ==
    IF S = {} THEN <<>>
    ELSE LET least == CHOOSE x \in S : \A y \in S : Compare(x, y) <= 0
         IN <<least>> \o sortedKeys(S \ {least})

(***************************************************************************)
(* Cells of the sheet: a string, a number, a formula, or not yet set.      *)
(***************************************************************************)
newStringCell(val) == [t |-> "string", v |-> val]
newNumberCell(val) == [t |-> "number", v |-> val]
newFormulaCell(formula) == [t |-> "formula", v |-> formula]
NilCell == [t |-> "nil", v |-> 0]

Letters == <<"A", "B", "C", "D", "E", "F", "G", "H", "I", "J", "K", "L", "M",
             "N", "O", "P", "Q", "R", "S", "T", "U", "V", "W", "X", "Y", "Z">>

\* colNumToRef: zero-based column ordinal to its letters (0 -> A, 26 -> AA)
RECURSIVE colNumToRef(_)
colNumToRef(n) ==
    LET d == n \div 26
        r == n % 26
    IN (IF d > 0 THEN colNumToRef(d - 1) ELSE <<>>) \o <<Letters[r + 1]>>

\* getTotalsFormula: "=SUM(%s%d:%s%d)" with the four arguments it formats
getTotalsFormula_NextRow(row, startCol, endCol) ==
    [fn |-> "SUM",
     c1 |-> colNumToRef(startCol), r1 |-> row + 2,
     c2 |-> colNumToRef(endCol), r2 |-> row + 2]

getTotalsFormula(row, startCol, endCol) ==
    [fn |-> "SUM",
     c1 |-> colNumToRef(startCol), r1 |-> row + 1,
     c2 |-> colNumToRef(endCol), r2 |-> row + 1]

FixedHeads == <<"Team", "Date", "Cloud Provider", "Payer ID", "Cost Center",
                "Account Name", "Account ID", "TOTAL">>

Index(list, x) == CHOOSE i \in 1..Len(list) : list[i] = x   \* slices.Index, 1-based

\* sortOutput: stable sort of the rows on the string in one column
RECURSIVE InsertStable(_, _, _)
InsertStable(sorted, row, col) ==
    IF sorted = <<>> THEN <<row>>
    ELSE LET last == sorted[Len(sorted)]
         IN IF Compare(last[col].v, row[col].v) <= 0
            THEN Append(sorted, row)
            ELSE Append(InsertStable(SubSeq(sorted, 1, Len(sorted) - 1), row, col),
                        last)

RECURSIVE sortOutputFrom(_, _, _, _)
sortOutputFrom(rows, col, i, acc) ==
    IF i > Len(rows) THEN acc
    ELSE sortOutputFrom(rows, col, i + 1, InsertStable(acc, rows[i], col))

sortOutput(rows, col) == sortOutputFrom(rows, col, 1, <<>>)

\* the row of one account, TOTAL left unset
AccountRow(accountId, dataRow, columnHeadsList, dir, meta) ==
    [idx \in 1..Len(columnHeadsList) |->
        LET key == columnHeadsList[idx]
        IN CASE key = "TOTAL" -> NilCell
             [] key = "Team" -> newStringCell(dir[accountId].Group)
             [] key = "Date" -> newStringCell(meta[accountId].Date)
             [] key = "Cloud Provider" -> newStringCell(dir[accountId].CloudProvider)
             [] key = "Cost Center" -> newStringCell(meta[accountId].CostCenter)
             [] key = "Payer ID" -> newStringCell(meta[accountId].PayerAccountId)
             [] key = "Account ID" -> newStringCell(dir[accountId].AccountId)
             [] key = "Account Name" -> newStringCell(meta[accountId].AccountName)
             [] OTHER -> newNumberCell(IF key \in DOMAIN dataRow THEN dataRow[key] ELSE 0)]

\* getSheetFromCostCells; order is the order in which the map costCells is ranged over
getSheetFromCostCells_TeamFirst(cells, heads, dir, meta, order) ==
    LET columnHeadsList == FixedHeads \o sortedKeys(heads)
        fixed == Len(FixedHeads)
        header == [idx \in 1..Len(columnHeadsList) |-> newStringCell(columnHeadsList[idx])]
        rows == [i \in 1..Len(order) |->
                    AccountRow(order[i], cells[order[i]], columnHeadsList, dir, meta)]
        s1 == sortOutput(rows, Index(columnHeadsList, "Team"))
        s2 == sortOutput(s1, Index(columnHeadsList, "Cloud Provider"))
        s3 == sortOutput(s2, Index(columnHeadsList, "Account ID"))
        tc == Index(columnHeadsList, "TOTAL")
        \* idx below is one-based; the code's idx is zero-based
        final == [idx \in 1..Len(s3) |->
                    [s3[idx] EXCEPT ![tc] =
                        newFormulaCell(getTotalsFormula(idx, fixed,
                                                        Len(columnHeadsList) - 1))]]
    IN <<header>> \o final

getSheetFromCostCells(cells, heads, dir, meta, order) ==
    LET columnHeadsList == FixedHeads \o sortedKeys(heads)
        fixed == Len(FixedHeads)
        header == [idx \in 1..Len(columnHeadsList) |-> newStringCell(columnHeadsList[idx])]
        rows == [i \in 1..Len(order) |->
                    AccountRow(order[i], cells[order[i]], columnHeadsList, dir, meta)]
        s1 == sortOutput(rows, Index(columnHeadsList, "Account ID"))
        s2 == sortOutput(s1, Index(columnHeadsList, "Cloud Provider"))
        s3 == sortOutput(s2, Index(columnHeadsList, "Team"))
        tc == Index(columnHeadsList, "TOTAL")
        \* idx below is one-based; the code's idx is zero-based
        final == [idx \in 1..Len(s3) |->
                    [s3[idx] EXCEPT ![tc] =
                        newFormulaCell(getTotalsFormula(idx, fixed,
                                                        Len(columnHeadsList) - 1))]]
    IN <<header>> \o final

Orders(S) ==
    {f \in [1..Cardinality(S) -> S] : \A i, j \in 1..Cardinality(S) : f[i] = f[j] => i = j}

materialize ==
    /\ pc = "materialize"
    /\ \E order \in Orders(DOMAIN costCells) :
          output' = getSheetFromCostCells(costCells, columnHeadsSet,
                                          accountsMetadata, metadata, order)
    /\ pc' = "write"
    /\ UNCHANGED <<accountsMetadata, costCells, columnHeadsSet, metadata,
                   ignored, logged, fatalMsg, nCldy, nIbm, fetchIbmcloudData>>
    /\ UNCHANGED <<dirVars, devVars, pullVars, postVars, runVars, oauthVars>>

\* output.writeSheet(sheetData)
writeSheet ==
    /\ pc = "write"
    /\ pc' = "done"
    /\ UNCHANGED <<accountsMetadata, costCells, columnHeadsSet, metadata,
                   ignored, logged, fatalMsg, nCldy, nIbm,
                   fetchIbmcloudData, output>>
    /\ UNCHANGED <<dirVars, devVars, pullVars, postVars, runVars, oauthVars>>

(***************************************************************************)
(* The directory main() starts the pipeline with: what getAccountMetadata  *)
(* returns for an accounts file declaring some of TrackedIds.              *)
(***************************************************************************)
Directories ==
    UNION {[S -> Declarations] : S \in SUBSET TrackedIds}

\* the variables of the pipeline while another operation is examined
PipeIdle ==
    /\ pc = "off"
    /\ accountsMetadata = <<>>
    /\ costCells = <<>>
    /\ columnHeadsSet = {}
    /\ metadata = <<>>
    /\ ignored = {}
    /\ logged = EmptyBag
    /\ fatalMsg = NoFatal
    /\ nCldy = 0
    /\ nIbm = 0
    /\ fetchIbmcloudData = FALSE
    /\ output = <<>>

DirIdle ==
    /\ providers = <<>>
    /\ loaded = {}
    /\ dirMetadata = <<>>
    /\ dirState = "off"

DevIdle ==
    /\ account = <<>>
    /\ results = <<>>
    /\ checked = <<>>

PullIdle ==
    /\ mode = "off"
    /\ accountList = <<>>
    /\ cur = 0
    /\ step = "off"
    /\ report = <<>>
    /\ sheetData = <<>>
    /\ csvData = <<>>
    /\ totalAws = 0
    /\ totalCM = 0
    /\ awsResponse = <<>>
    /\ cmResponse = <<>>

PostIdle ==
    /\ postPc = "off"
    /\ sheetObject = <<>>
    /\ mainCells = <<>>
    /\ requests = <<>>
    /\ newDataRef = <<>>
    /\ mainSheetRef = <<>>

RunIdle ==
    /\ runPc = "off"
    /\ configuration = {}
    /\ malformed = FALSE
    /\ network = <<>>

OAuthIdle ==
    /\ listenerPc = "off"
    /\ server = "off"
    /\ handler = <<>>
    /\ shutdown = <<>>
    /\ queryParams = <<>>
    /\ returnedParams = <<>>

Init ==
    /\ DirIdle
    /\ DevIdle
    /\ PullIdle
    /\ PostIdle
    /\ RunIdle
    /\ OAuthIdle
    /\ pc = "cldy"
    /\ \E d \in Directories :
          accountsMetadata =
              [k \in DOMAIN d |-> [AccountId |-> k, CloudProvider |-> d[k][1],
                                   DataFound |-> FALSE, Group |-> d[k][2]]]
    /\ costCells = EmptyMap
    /\ columnHeadsSet = {}
    /\ metadata = EmptyMap
    /\ ignored = {}
    /\ logged = EmptyBag
    /\ fatalMsg = NoFatal
    /\ nCldy = 0
    /\ nIbm = 0
    /\ fetchIbmcloudData \in BOOLEAN
    /\ output = <<>>

Next ==
    \/ \E e \in ResultsEntry : CldyRecord(e)
    \/ NoCloudabilityData
    \/ CldyDone
    \/ \E s \in IbmcResultsEntry : IbmAccount(s)
    \/ NoIbmData
    \/ IbmDone
    \/ checkMissing
    \/ materialize
    \/ writeSheet

Spec == Init /\ [][Next]_vars

(***************************************************************************)
(* getAccountMetadata: the account IDs of the accounts file are sequences  *)
(* of characters here, because the loader matches them against the         *)
(* patterns of accountIdPatterns.                                          *)
(***************************************************************************)
MaxDeclared == 2    \* accounts declared in the accounts file

\* 12 digits, hyphens present or not between the groups of four
AmazonSpellings ==
    {<<"5", "9", "0", "1", "8", "3", "8", "5", "7", "3", "0", "5">>,
     <<"5", "9", "0", "1", "-", "8", "3", "8", "5", "-", "7", "3", "0", "5">>,
     <<"5", "9", "0", "1", "-", "8", "3", "8", "5", "7", "3", "0", "5">>,
     <<"1", "2", "3", "4", "5", "6", "7", "8", "9", "0", "1", "2">>}

\* 11 digits; a doubled hyphen
AmazonMalformed ==
    {<<"5", "9", "0", "1", "8", "3", "8", "5", "7", "3", "0">>,
     <<"5", "9", "0", "1", "-", "-", "8", "3", "8", "5", "7", "3", "0", "5">>}

\* 32 lower-case hex digits, hyphens present or not between the groups
AzureSpellings ==
    {<<"b", "0", "a", "d", "4", "7", "3", "7", "8", "2", "9", "9", "4", "c", "0", "a", "9", "d", "d", "5", "9", "5", "9", "c", "b", "c", "f", "8", "d", "8", "1", "c">>,
     <<"b", "0", "a", "d", "4", "7", "3", "7", "-", "8", "2", "9", "9", "-", "4", "c", "0", "a", "-", "9", "d", "d", "5", "-", "9", "5", "9", "c", "b", "c", "f", "8", "d", "8", "1", "c">>}

\* the same UUID written with upper-case hex digits
AzureUpperCase ==
    {<<"B", "0", "A", "D", "4", "7", "3", "7", "-", "8", "2", "9", "9", "-", "4", "C", "0", "A", "-", "9", "D", "D", "5", "-", "9", "5", "9", "C", "B", "C", "F", "8", "D", "8", "1", "C">>}

\* 31 hex digits
AzureMalformed ==
    {<<"b", "0", "a", "d", "4", "7", "3", "7", "8", "2", "9", "9", "4", "c", "0", "a", "9", "d", "d", "5", "9", "5", "9", "c", "b", "c", "f", "8", "d", "8", "1">>}

\* IDs of a provider without a fixed shape
OtherIds ==
    {<<"i", "b", "m", "-", "1">>,
     <<"i", "b", "m", "1">>}

DeclaredIds ==
    AmazonSpellings \cup AmazonMalformed \cup AzureSpellings \cup AzureUpperCase
        \cup AzureMalformed \cup OtherIds

DeclaredProviders == {"aws", "Amazon", "Azure", "IBMCloud"}
DeclaredGroups == {"X", "Y"}

\* one account of the accounts file, with the provider and group it is listed under
Declared == [provider : DeclaredProviders, group : DeclaredGroups, AccountID : DeclaredIds]

DecimalDigits == {"0", "1", "2", "3", "4", "5", "6", "7", "8", "9"}
LowerHexDigits == DecimalDigits \cup {"a", "b", "c", "d", "e", "f"}

\* accountIdPatterns: ^(C{n1})-?(C{n2})-?...(C{nk})$ as the character class C
\* and the group lengths n1..nk
accountIdPatterns ==
    [Amazon |-> [class |-> DecimalDigits, groups |-> <<4, 4, 4>>],
     Azure |-> [class |-> LowerHexDigits, groups |-> <<8, 4, 4, 4, 12>>]]

NoMatch == <<"nil">>

\* regexp.FindStringSubmatch for these patterns, minus the whole-match element:
\* the groups matched from position pos on, or NoMatch.  The class never holds
\* the hyphen, so taking an optional hyphen whenever one is there loses no match.
RECURSIVE MatchGroups(_, _, _, _, _)
MatchGroups(pat, str, g, pos, acc) ==
    IF g > Len(pat.groups)
    THEN IF pos = Len(str) + 1 THEN acc ELSE NoMatch
    ELSE LET n == pat.groups[g]
             next == pos + n
         IN IF /\ next - 1 <= Len(str)
               /\ \A i \in pos..(next - 1) : str[i] \in pat.class
            THEN MatchGroups(pat, str, g + 1,
                             IF g < Len(pat.groups) /\ next <= Len(str) /\ str[next] = "-"
                             THEN next + 1 ELSE next,
                             Append(acc, SubSeq(str, pos, next - 1)))
            ELSE NoMatch

FindStringSubmatch(pat, str) == MatchGroups(pat, str, 1, 1, <<>>)

\* strings.Join(elems, sep) on sequences of characters
RECURSIVE Join(_, _)
Join(elems, sep) ==
    IF elems = <<>> THEN <<>>
    ELSE IF Len(elems) = 1 THEN elems[1]
    ELSE elems[1] \o sep \o Join(Tail(elems), sep)

\* the provider name the loader files an entry under
ProviderName(provider) == IF provider = "aws" THEN "Amazon" ELSE provider

\* the map key of a declared account: [ok |-> FALSE] is the log.Fatalf
DirectoryKey_Unhyphenated(provider, accountID) ==
    IF provider \in DOMAIN accountIdPatterns
    THEN LET matches == FindStringSubmatch(accountIdPatterns[provider], accountID)
         IN IF matches # NoMatch
            THEN [ok |-> TRUE, key |-> Join(matches, <<>>)]
            ELSE [ok |-> FALSE, key |-> <<>>]
    ELSE [ok |-> TRUE, key |-> accountID]

DirectoryKey(provider, accountID) ==
    IF provider \in DOMAIN accountIdPatterns
    THEN LET matches == FindStringSubmatch(accountIdPatterns[provider], accountID)
         IN IF matches # NoMatch
            THEN [ok |-> TRUE, key |-> Join(matches, <<"-">>)]
            ELSE [ok |-> FALSE, key |-> <<>>]
    ELSE [ok |-> TRUE, key |-> accountID]

\* the entries of one group are a list, handled in order; providers and groups
\* are maps, ranged over in any order
MayLoadNext(i) ==
    /\ i \in DOMAIN providers
    /\ i \notin loaded
    /\ \A j \in 1..(i - 1) :
          (providers[j].provider = providers[i].provider
           /\ providers[j].group = providers[i].group) => j \in loaded

\* one iteration of the innermost loop of getAccountMetadata
LoadEntry(i) ==
    /\ dirState = "load"
    /\ MayLoadNext(i)
    /\ LET e == providers[i]
           provider == ProviderName(e.provider)
           k == DirectoryKey(provider, e.AccountID)
       IN /\ loaded' = loaded \cup {i}
          /\ IF k.ok
             THEN /\ dirMetadata' = MapPut(dirMetadata, k.key,
                                       [AccountId |-> e.AccountID,
                                        CloudProvider |-> provider,
                                        DataFound |-> FALSE,
                                        Group |-> e.group])
                  /\ UNCHANGED dirState
             ELSE /\ dirState' = "fatal"
                  /\ UNCHANGED dirMetadata
    /\ UNCHANGED <<providers, pipeVars, devVars, pullVars, postVars, runVars, oauthVars>>

\* every declared account is handled: getAccountMetadata returns the map
LoadReturn ==
    /\ dirState = "load"
    /\ loaded = DOMAIN providers
    /\ dirState' = "done"
    /\ UNCHANGED <<providers, loaded, dirMetadata, pipeVars, devVars, pullVars, postVars, runVars, oauthVars>>

InitDir ==
    /\ PipeIdle
    /\ DevIdle
    /\ PullIdle
    /\ PostIdle
    /\ RunIdle
    /\ OAuthIdle
    /\ providers \in UNION {[1..n -> Declared] : n \in 0..MaxDeclared}
    /\ loaded = {}
    /\ dirMetadata = <<>>
    /\ dirState = "load"

NextDir ==
    \/ \E i \in 1..MaxDeclared : LoadEntry(i)
    \/ LoadReturn

SpecDir == InitDir /\ [][NextDir]_vars

(***************************************************************************)
(* AwsPuller.CheckResponseConsistency.  The costs and the standard value   *)
(* are float64 values that are whole numbers; the quotient and the product *)
(* of the deviation are computed as IEEE 754 binary64 computes them: a     *)
(* positive value is a mantissa m of Precision bits (most significant      *)
(* first, m[1] = 1) and the exponent x of its leading bit, and every       *)
(* operation rounds to nearest, ties to even.                              *)
(***************************************************************************)
Precision == 53

FloatZero == [m |-> <<>>, x |-> 0]

\* the number of binary digits of a natural number below 2^30
BitLength(n) == CHOOSE l \in 0..30 : (l = 0 \/ 2^(l - 1) <= n) /\ n < 2^l

\* n in binary, most significant bit first, on width digits
FixedBits(n, width) == [i \in 1..width |-> (n \div 2^(width - i)) % 2]

\* the binary digits of a natural number, most significant first
IntBits(n) == FixedBits(n, BitLength(n))

RECURSIVE BitsValue(_)
BitsValue(bits) ==
    IF bits = <<>> THEN 0
    ELSE 2 * BitsValue(SubSeq(bits, 1, Len(bits) - 1)) + bits[Len(bits)]

\* mantissa plus one unit in the last place
PlusOne(bits) ==
    IF \A i \in 1..Len(bits) : bits[i] = 1
    THEN [i \in 1..(Len(bits) + 1) |-> IF i = 1 THEN 1 ELSE 0]
    ELSE LET j == CHOOSE i \in 1..Len(bits) :
                      bits[i] = 0 /\ \A h \in (i + 1)..Len(bits) : bits[h] = 1
         IN [i \in 1..Len(bits) |->
                IF i < j THEN bits[i] ELSE IF i = j THEN 1 ELSE 0]

\* bits (leading bit 1, exponent x), followed by a nonzero tail iff sticky,
\* rounded to Precision bits
RoundToNearestEven(bits, x, sticky) ==
    IF Len(bits) <= Precision
    THEN [m |-> bits \o [i \in 1..(Precision - Len(bits)) |-> 0], x |-> x]
    ELSE LET keep == SubSeq(bits, 1, Precision)
             guard == bits[Precision + 1]
             rest == sticky \/ \E i \in (Precision + 2)..Len(bits) : bits[i] = 1
             up == guard = 1 /\ (rest \/ keep[Precision] = 1)
             inc == PlusOne(keep)
         IN IF ~up THEN [m |-> keep, x |-> x]
            ELSE IF Len(inc) > Precision
            THEN [m |-> SubSeq(inc, 1, Precision), x |-> x + 1]
            ELSE [m |-> inc, x |-> x]

\* 2^k modulo e, for e below 2^15
RECURSIVE Pow2Mod(_, _)
Pow2Mod(k, e) ==
    IF k = 0 THEN 1 % e
    ELSE LET h == Pow2Mod(k \div 2, e)
         IN (h * h * (IF k % 2 = 1 THEN 2 ELSE 1)) % e

\* the k-th binary digit after the point of r / e (r < e), and what remains
\* of r / e below the first k digits
FractionBit(r, e, k) == (2 * ((r * Pow2Mod(k - 1, e)) % e)) \div e

FractionRest(r, e, k) == (r * Pow2Mod(k, e)) % e

\* float64(d) / float64(e) for naturals d and e > 0 below 2^15
FloatDiv(d, e) ==
    IF d = 0 THEN FloatZero
    ELSE LET ib == IntBits(d \div e)
             r == d % e
             \* zero digits between the point and the first one
             z == IF ib # <<>> THEN 0
                  ELSE (CHOOSE k \in 1..30 :
                            /\ FractionBit(r, e, k) = 1
                            /\ \A h \in 1..(k - 1) : FractionBit(r, e, h) = 0) - 1
             n == Precision + 1 - Len(ib)
         IN RoundToNearestEven(ib \o [i \in 1..n |-> FractionBit(r, e, z + i)],
                               IF ib # <<>> THEN Len(ib) - 1 ELSE -(z + 1),
                               FractionRest(r, e, z + n) # 0)

\* the mantissa m times k (k below 2^7), limb by limb from the low end
TimesBits(m, k) ==
    LET lo == BitsValue(SubSeq(m, Len(m) - 17, Len(m))) * k
        mid == BitsValue(SubSeq(m, Len(m) - 35, Len(m) - 18)) * k + lo \div 2^18
        hi == BitsValue(SubSeq(m, 1, Len(m) - 36)) * k + mid \div 2^18
    IN IntBits(hi) \o FixedBits(mid % 2^18, 18) \o FixedBits(lo % 2^18, 18)

\* f * float64(k) for a natural k, 0 < k < 2^7
FloatTimes(f, k) ==
    IF f = FloatZero THEN FloatZero
    ELSE LET p == TimesBits(f.m, k)
         IN RoundToNearestEven(p, f.x + Len(p) - Len(f.m), FALSE)

\* f > float64(n) for an integer n
FloatGreater(f, n) ==
    IF f = FloatZero THEN 0 > n
    ELSE IF f.x < 0 THEN 0 >= n
    ELSE LET int == BitsValue(SubSeq(f.m, 1, f.x + 1))
             frac == \E i \in (f.x + 2)..Len(f.m) : f.m[i] = 1
         IN int > n \/ (int = n /\ frac)

Abs(n) == IF n < 0 THEN -n ELSE n

(***************************************************************************)
(* CheckResponseConsistency(account, results): the total and the error.    *)
(***************************************************************************)
CheckResponseConsistency(acct, res) ==
    LET total == SumSet(res, DOMAIN res)
        diffAbs == Abs(acct.StandardValue - total)
        diffPercent == FloatTimes(FloatDiv(diffAbs, acct.StandardValue), 100)
    IN IF acct.StandardValue > 0
          /\ FloatGreater(diffPercent, acct.DeviationPercent)
       THEN [total |-> total, err |-> "deviation check failed"]
       ELSE [total |-> total, err |-> "nil"]

MaxDeviation == 15   \* largest declared deviation percentage

Services == {"EC2", "S3"}
ServiceCosts == {0, 43, 50, 57}
StandardValues == {-10, 0, 50, 90, 100}

AccountEntry ==
    [AccountID : {"A"}, StandardValue : StandardValues,
     DeviationPercent : (-1)..MaxDeviation]

\* pullAwsAccount calls CheckResponseConsistency with the pulled costs
Check ==
    /\ checked = <<>>
    /\ checked' = CheckResponseConsistency(account, results)
    /\ UNCHANGED <<account, results, pipeVars, dirVars, pullVars, postVars, runVars, oauthVars>>

InitDev ==
    /\ PipeIdle
    /\ DirIdle
    /\ PullIdle
    /\ PostIdle
    /\ RunIdle
    /\ OAuthIdle
    /\ account \in AccountEntry
    /\ results \in UNION {[S -> ServiceCosts] : S \in SUBSET Services}
    /\ checked = <<>>

NextDev == Check

SpecDev == InitDev /\ [][NextDev]_vars

(***************************************************************************)
(* Properties of the ingest pipeline.                                      *)
(***************************************************************************)
HasAmount(cells, a, c) == a \in DOMAIN cells /\ c \in DOMAIN cells[a]

Amount(cells, a, c) == IF HasAmount(cells, a, c) THEN cells[a][c] ELSE 0

NotTracked(source, id) ==
    [kind |-> "not tracked", source |-> source, account |-> id]

ProviderWarning(source, id) ==
    [kind |-> "provider", source |-> source, account |-> id]

MissingWarning(id) ==
    [kind |-> "no data source", source |-> "accounts file", account |-> id]

\* C1: in the Cloudability pass, a record of a tracked account whose
\* (account, usage family) cell is already written ends the run with a fatal
\* error naming the account and the family, and no written cell of the grid
\* is ever changed by a Cloudability record.
C1_DuplicateIsFatal ==
    [][/\ \A e \in ResultsEntry :
            (/\ CldyRecord(e)
             /\ e.AccountID \in DOMAIN accountsMetadata
             /\ HasAmount(costCells, e.AccountID, e.UsageFamily))
            => /\ pc' = "fatal"
               /\ fatalMsg'.account = e.AccountID
               /\ fatalMsg'.category = e.UsageFamily
               /\ costCells' = costCells
       /\ pc = "cldy" =>
            \A a \in AccountIds, c \in Families :
                HasAmount(costCells, a, c) =>
                    /\ HasAmount(costCells', a, c)
                    /\ costCells'[a][c] = costCells[a][c]]_vars

C1_Witness ==
    /\ pc = "fatal"
    /\ fatalMsg.kind = "Duplicate entry"
    /\ HasAmount(costCells, fatalMsg.account, fatalMsg.category)

\* the bucket of each resource name of the model, as specified
ClaimedBucket(resourceName) ==
    IF resourceName \in {"Cloud Object Storage", "Block Storage for VPC"}
    THEN "Storage" ELSE "Other"

BucketSum(resources, b) ==
    LET idx == {i \in 1..Len(resources) : ClaimedBucket(resources[i].ResourceName) = b}
        cost == [i \in idx |-> resources[i].BillableCost]
    IN SumSet(cost, idx)

\* C2: after the IBM Cloud pass has ingested one account summary, the row of
\* that account holds, for every bucket, the sum of the billable costs of the
\* summary's resources whose name maps to the bucket (unknown names map to
\* "Other"), and holds no other bucket.
C2_IbmSumsIntoBucket ==
    [][\A s \in IbmcResultsEntry :
          (/\ IbmAccount(s)
           /\ s.AccountID \in DOMAIN accountsMetadata
           /\ pc' # "fatal")
          => /\ s.AccountID \in DOMAIN costCells'
             /\ \A b \in {"Storage", "Other"} :
                   Amount(costCells', s.AccountID, b) = BucketSum(s.AccountResources, b)
             /\ DOMAIN costCells'[s.AccountID] =
                   {ClaimedBucket(s.AccountResources[i].ResourceName) :
                        i \in 1..Len(s.AccountResources)}]_vars

\* two distinct resource names (costs 1 and 2) landed in one bucket
C2_Witness ==
    /\ pc = "ibm"
    /\ \E a \in DOMAIN costCells :
          /\ a \notin DOMAIN metadata \/ metadata[a].CloudProvider = "IBMCloud"
          /\ HasAmount(costCells, a, "Storage")
          /\ costCells[a]["Storage"] = 3

GridCategories == UNION {DOMAIN costCells[a] : a \in DOMAIN costCells}

\* the header cells that follow the fixed prefix
CategoryColumns ==
    [i \in 1..(Len(output[1]) - Len(FixedHeads)) |-> output[1][i + Len(FixedHeads)].v]

\* C3: once the table is materialized, the category columns of the header are
\* the categories for which some account of the grid holds an amount, each
\* once, in lexicographic order.
C3_HeaderIsGridCategories ==
    pc \in {"write", "done"} =>
        /\ {CategoryColumns[i] : i \in DOMAIN CategoryColumns} = GridCategories
        /\ \A i, j \in DOMAIN CategoryColumns :
              i < j => Compare(CategoryColumns[i], CategoryColumns[j]) < 0

\* how a spreadsheet reads column letters: "A" -> 0, "Z" -> 25, "AA" -> 26
RECURSIVE RefToColNum(_)
RefToColNum(ref) ==
    LET last == CHOOSE i \in 1..26 : Letters[i] = ref[Len(ref)]
    IN IF Len(ref) = 1 THEN last - 1
       ELSE (RefToColNum(SubSeq(ref, 1, Len(ref) - 1)) + 1) * 26 + last - 1

\* the sum of the numeric cells in the range of a SUM formula, the table
\* being written from the first row and first column of the sheet
RangeSum(f) ==
    LET cs == {<<r, c>> \in (f.r1..f.r2) \X (RefToColNum(f.c1)..RefToColNum(f.c2)) :
                  /\ r \in 1..Len(output)
                  /\ c + 1 \in 1..Len(output[r])
                  /\ output[r][c + 1].t = "number"}
        val == [x \in cs |-> output[x[1]][x[2] + 1].v]
    IN SumSet(val, cs)

\* the grid key of a data row (the directory entry whose declared ID it shows)
RowKey(row) ==
    CHOOSE k \in DOMAIN accountsMetadata :
        accountsMetadata[k].AccountId = row[Index(FixedHeads, "Account ID")].v

GridTotal(a) == SumSet(costCells[a], DOMAIN costCells[a])

\* C4: for every data row, the numeric cells in the range of the row's total
\* formula add up to the sum of the amounts the grid holds for the account.
C4_TotalFormulaSumsGridRow ==
    pc \in {"write", "done"} =>
        \A i \in 2..Len(output) :
            RangeSum(output[i][Index(FixedHeads, "TOTAL")].v) = GridTotal(RowKey(output[i]))

\* C5: missing-account warnings appear only once main() has passed both
\* source passes, and then there is exactly one for every directory entry
\* whose DataFound flag is false and none for any other account.
C5_MissingReport ==
    /\ pc \in {"cldy", "ibm", "checkMissing", "fatal"} =>
          \A id \in AccountIds : CopiesIn(MissingWarning(id), logged) = 0
    /\ pc \in {"materialize", "write", "done"} =>
          /\ nCldy > 0
          /\ fetchIbmcloudData => nIbm > 0
          /\ \A id \in AccountIds :
                CopiesIn(MissingWarning(id), logged) =
                    IF id \in DOMAIN accountsMetadata /\ ~accountsMetadata[id].DataFound
                    THEN 1 ELSE 0

\* one entry was matched by two records, another by none
C5_Witness ==
    /\ pc = "materialize"
    /\ nCldy = 2
    /\ \E a, b \in DOMAIN accountsMetadata :
          /\ accountsMetadata[a].DataFound
          /\ a \in DOMAIN costCells /\ Cardinality(DOMAIN costCells[a]) = 2
          /\ ~accountsMetadata[b].DataFound
          /\ CopiesIn(MissingWarning(b), logged) = 1

\* the warnings a pass has logged about an account that is not tracked
NotTrackedCount(source, id) == CopiesIn(NotTracked(source, id), logged)

CurrentSource == IF pc = "cldy" THEN "Cloudability" ELSE "IBM Cloud"

\* C6 as stated: during a source pass, every untracked account ID seen so far
\* in the pass (the dedupe set) has been warned about exactly once.
C6_ExactlyOneWarning ==
    pc \in {"cldy", "ibm"} =>
        \A id \in ignored : NotTrackedCount(CurrentSource, id) = 1

\* C6 amended: a record of an untracked account logs a "not tracked" warning
\* exactly when it is the first record of the pass with that ID and its cost
\* center is the configured one; so there is at most one warning per ID and
\* pass, and none for an ID whose first record has another cost center.
C6_AtMostOneWarning ==
    /\ [](\A id \in AccountIds, src \in {"Cloudability", "IBM Cloud"} :
            /\ NotTrackedCount(src, id) <= 1
            /\ NotTrackedCount(src, id) = 1 => id \notin DOMAIN accountsMetadata)
    /\ [][/\ \A e \in ResultsEntry :
               (CldyRecord(e) /\ e.AccountID \notin DOMAIN accountsMetadata) =>
                   /\ e.AccountID \in ignored'
                   /\ CopiesIn(NotTracked("Cloudability", e.AccountID), logged') =
                        NotTrackedCount("Cloudability", e.AccountID) +
                        (IF e.AccountID \notin ignored /\ e.CostCenter = ourCostCenter
                         THEN 1 ELSE 0)
          /\ \A s \in IbmcResultsEntry :
               (IbmAccount(s) /\ s.AccountID \notin DOMAIN accountsMetadata) =>
                   /\ s.AccountID \in ignored'
                   /\ CopiesIn(NotTracked("IBM Cloud", s.AccountID), logged') =
                        NotTrackedCount("IBM Cloud", s.AccountID) +
                        (IF s.AccountID \notin ignored /\ s.CostCenter = ourCostCenter
                         THEN 1 ELSE 0)]_vars

\* an untracked ID was seen twice in the Cloudability pass and warned about once
C6_Witness ==
    /\ pc = "cldy"
    /\ nCldy = 2
    /\ costCells = EmptyMap
    /\ Cardinality(ignored) = 1
    /\ \A k \in DOMAIN accountsMetadata : ~accountsMetadata[k].DataFound
    /\ \E id \in ignored : NotTrackedCount("Cloudability", id) = 1

\* C7 as stated: after a record of a tracked account, the directory entry's
\* provider label is the record's.
C7_LabelFollowsRecord ==
    [][/\ \A e \in ResultsEntry :
            (CldyRecord(e) /\ e.AccountID \in DOMAIN accountsMetadata) =>
                accountsMetadata'[e.AccountID].CloudProvider = e.CloudProvider
       /\ \A s \in IbmcResultsEntry :
            (IbmAccount(s) /\ s.AccountID \in DOMAIN accountsMetadata) =>
                accountsMetadata'[s.AccountID].CloudProvider = s.CloudProvider]_vars

\* C7 amended: after a record of a tracked account the directory entry's label
\* is the record's, except that a directory label "AWS" is kept, without a
\* warning, when the record says "Amazon"; a label that is overwritten is
\* warned about once; and the record is ingested either way (the entry is
\* marked found and, unless the run ends on the record, its cell is written).
C7_LabelFollowsRecordButAlias ==
    [][/\ \A e \in ResultsEntry :
            (CldyRecord(e) /\ e.AccountID \in DOMAIN accountsMetadata) =>
                LET old == accountsMetadata[e.AccountID].CloudProvider
                    new == accountsMetadata'[e.AccountID].CloudProvider
                    alias == old = "AWS" /\ e.CloudProvider = "Amazon"
                    w == ProviderWarning("Cloudability", e.AccountID)
                IN /\ new = IF alias THEN "AWS" ELSE e.CloudProvider
                   /\ CopiesIn(w, logged') =
                         CopiesIn(w, logged) + (IF new # old THEN 1 ELSE 0)
                   /\ accountsMetadata'[e.AccountID].DataFound
                   /\ pc' # "fatal" => HasAmount(costCells', e.AccountID, e.UsageFamily)
       /\ \A s \in IbmcResultsEntry :
            (IbmAccount(s) /\ s.AccountID \in DOMAIN accountsMetadata) =>
                LET old == accountsMetadata[s.AccountID].CloudProvider
                    new == accountsMetadata'[s.AccountID].CloudProvider
                    w == ProviderWarning("IBM Cloud", s.AccountID)
                IN /\ new = s.CloudProvider
                   /\ CopiesIn(w, logged') =
                         CopiesIn(w, logged) + (IF new # old THEN 1 ELSE 0)
                   /\ accountsMetadata'[s.AccountID].DataFound
                   /\ pc' # "fatal" => s.AccountID \in DOMAIN costCells']_vars

\* a label was overwritten and warned about, and the record's cost is in the grid
C7_Witness ==
    /\ pc = "cldy"
    /\ \E a \in DOMAIN accountsMetadata :
          /\ CopiesIn(ProviderWarning("Cloudability", a), logged) = 1
          /\ accountsMetadata[a].CloudProvider = "Amazon"
          /\ accountsMetadata[a].Group = "Y"
          /\ a \in DOMAIN costCells
    /\ \E b \in DOMAIN accountsMetadata :
          /\ accountsMetadata[b].CloudProvider = "AWS"
          /\ accountsMetadata[b].DataFound
          /\ b \in DOMAIN metadata /\ metadata[b].CloudProvider = "Amazon"

(***************************************************************************)
(* Properties of the directory loader.                                     *)
(***************************************************************************)
StripHyphens(id) == SelectSeq(id, LAMBDA c : c # "-")

\* digits written in groups, with a hyphen after each group listed in mask
RECURSIVE Spell(_, _, _, _)
Spell(digits, groups, mask, g) ==
    IF g > Len(groups) THEN <<>>
    ELSE SubSeq(digits, 1, groups[g])
         \o (IF g \in mask THEN <<"-">> ELSE <<>>)
         \o Spell(SubSeq(digits, groups[g] + 1, Len(digits)), groups, mask, g + 1)

RECURSIVE SumSeq(_)
SumSeq(q) == IF q = <<>> THEN 0 ELSE Head(q) + SumSeq(Tail(q))

\* id is SumSeq(groups) characters of class, with optional hyphens between groups
HasShape(id, class, groups) ==
    LET d == StripHyphens(id)
    IN /\ Len(d) = SumSeq(groups)
       /\ \A i \in 1..Len(d) : d[i] \in class
       /\ \E mask \in SUBSET (1..(Len(groups) - 1)) : id = Spell(d, groups, mask, 1)

Hyphenated(id, groups) == Spell(StripHyphens(id), groups, 1..(Len(groups) - 1), 1)

\* the entry of declared account e is filed under key, and nothing else changes
FiledUnder(e, key) ==
    /\ dirState' # "fatal"
    /\ DOMAIN dirMetadata' = DOMAIN dirMetadata \cup {key}
    /\ dirMetadata'[key].AccountId = e.AccountID
    /\ \A k \in DOMAIN dirMetadata \ {key} : dirMetadata'[k] = dirMetadata[k]

Aborted == dirState' = "fatal" /\ dirMetadata' = dirMetadata

\* what the loader does with one declared account whose Azure IDs are made of
\* the hex digits in hex
LoadsAsClaimed(e, hex) ==
    CASE e.provider \in {"aws", "Amazon"} ->
            IF HasShape(e.AccountID, DecimalDigits, <<4, 4, 4>>)
            THEN FiledUnder(e, Hyphenated(e.AccountID, <<4, 4, 4>>))
            ELSE Aborted
      [] e.provider = "Azure" ->
            IF HasShape(e.AccountID, hex, <<8, 4, 4, 4, 12>>)
            THEN FiledUnder(e, Hyphenated(e.AccountID, <<8, 4, 4, 4, 12>>))
            ELSE Aborted
      [] OTHER -> FiledUnder(e, e.AccountID)

\* C8: when the loader returns, the directory holds one entry for every
\* declared account (two declarations with one canonical ID would have been
\* a fatal error).
C8_NoDuplicateSurvives ==
    dirState = "done" => Cardinality(DOMAIN dirMetadata) = Len(providers)

\* C9 as stated: an Amazon ID of 12 digits is keyed DDDD-DDDD-DDDD, an Azure ID
\* of 32 hex digits (of either case) is keyed 8-4-4-4-12, hyphens being
\* optional in the declared ID; any other ID of those providers aborts; an ID
\* of another provider is its own key.
C9_CanonicalKeysAnyCase ==
    [][\A i \in 1..MaxDeclared :
          LoadEntry(i) =>
              LoadsAsClaimed(providers[i],
                             LowerHexDigits \cup {"A", "B", "C", "D", "E", "F"})]_vars

\* C9 amended: the same, the Azure ID being 32 lower-case hex digits (0-9, a-f);
\* an Azure ID with an upper-case hex digit aborts the run.
C9_CanonicalKeys ==
    [][\A i \in 1..MaxDeclared :
          LoadEntry(i) => LoadsAsClaimed(providers[i], LowerHexDigits)]_vars

\* an unhyphenated Amazon ID and an unhyphenated Azure ID were filed under
\* their hyphenated keys
C9_Witness ==
    /\ dirState = "done"
    /\ \E k1, k2 \in DOMAIN dirMetadata :
          /\ dirMetadata[k1].CloudProvider = "Amazon"
          /\ dirMetadata[k1].AccountId = StripHyphens(k1)
          /\ Len(k1) = 14
          /\ dirMetadata[k2].CloudProvider = "Azure"
          /\ dirMetadata[k2].AccountId = StripHyphens(k2)
          /\ Len(k2) = 36

(***************************************************************************)
(* Properties of the deviation check.                                      *)
(***************************************************************************)
Returned == checked # <<>>

Failed == checked.err # "nil"

\* |expected - total| / expected * 100 > tolerance, in exact arithmetic
DeviationExceeds(total, expected, tolerance) ==
    100 * Abs(expected - total) > tolerance * expected

\* C10: the check fails exactly when the standard value is positive and the
\* deviation percentage is strictly greater than the declared tolerance; so
\* (100, 100, 0) passes, (100, 90, 5) fails and a standard value of 0 passes.
C10_DeviationCheck ==
    Returned =>
        /\ Failed <=> (/\ account.StandardValue > 0
                       /\ DeviationExceeds(checked.total, account.StandardValue,
                                           account.DeviationPercent))
        /\ (checked.total = 100 /\ account.StandardValue = 100
              /\ account.DeviationPercent = 0) => ~Failed
        /\ (checked.total = 100 /\ account.StandardValue = 90
              /\ account.DeviationPercent = 5) => Failed
        /\ account.StandardValue = 0 => ~Failed

(***************************************************************************)
(* main() of costpuller.go in the modes "aws" and "crosscheck": the loop   *)
(* over the declared accounts.  Amounts sent by the providers are decimal  *)
(* strings; an amount is written here as its number of thousandths n, and  *)
(* strconv.ParseFloat yields the float64 nearest to n / 1000.              *)
(***************************************************************************)
MaxAccounts == 2    \* accounts in the list that is pulled

ParseAmount(n) == FloatDiv(n, 1000)

\* math.Round(f) for f >= 0: the nearest integer, halves away from zero
FloatRound(f) ==
    IF f = FloatZero THEN 0
    ELSE IF f.x < -1 THEN 0
    ELSE IF f.x = -1 THEN 1
    ELSE BitsValue(SubSeq(f.m, 1, f.x + 1))
         + (IF f.x + 2 <= Len(f.m) /\ f.m[f.x + 2] = 1 THEN 1 ELSE 0)

\* math.Round(f*100)/100
RoundCents(f) == FloatDiv(FloatRound(FloatTimes(f, 100)), 100)

\* the totals the model lets a provider report, in thousandths
PullTotals == {0, 995, 1000, 1005, 2000}

\* the per-service amounts of a breakdown, in whole units
ServiceResults == UNION {[S -> {1, 2}] : S \in SUBSET Services}

\* what Cost Explorer answers for one account: the total report and the
\* service breakdown report
AwsResponse ==
    [total : PullTotals, unit : {"USD", "EUR"}, byTime : {0, 1},
     groups : ServiceResults, groupKeys : {1, 2}, groupUnit : {"USD", "EUR"}]

NilResults == "nil"

\* AwsPuller.PullData after the two reports have been retrieved
PullData(resp) ==
    LET totalService == SumSet(resp.groups, DOMAIN resp.groups)
    IN IF resp.unit # "USD" THEN [results |-> NilResults, err |-> "unit"]
       ELSE IF resp.byTime # 1 THEN [results |-> EmptyMap, err |-> "nil"]
       ELSE IF resp.groups # <<>> /\ resp.groupKeys # 1
       THEN [results |-> EmptyMap, err |-> "keys"]
       ELSE IF resp.groups # <<>> /\ resp.groupUnit # resp.unit
       THEN [results |-> NilResults, err |-> "units"]
       ELSE IF RoundCents(ParseAmount(1000 * totalService))
               # RoundCents(ParseAmount(resp.total))
       THEN [results |-> NilResults, err |-> "total"]
       ELSE [results |-> resp.groups, err |-> "nil"]

\* AwsPuller.NormalizeResponse: the row of one account
NormalizeResponse(group, dateRange, accountID, serviceResults) ==
    [group |-> group, date |-> dateRange, account |-> accountID,
     infra |-> "AWS", costs |-> serviceResults]

ReportLine(accountID, kind) == [account |-> accountID, kind |-> kind]

\* writeReport
writeReport(outfile, data) == Append(outfile, data)

\* the accounts the accounts file may declare for the pull
PullAccounts ==
    {[AccountID |-> "A", StandardValue |-> 2, DeviationPercent |-> 0],
     [AccountID |-> "B", StandardValue |-> 0, DeviationPercent |-> 0]}

AccountLists == UNION {[1..n -> PullAccounts] : n \in 1..MaxAccounts}

\* AwsPuller.pullAwsAccount: whether it ends the run, the row and the total
\* it returns, and the report file after it
pullAwsAccount_FatalOnDeviation(acct, group, month, resp, reportFile) ==
    LET pulled == PullData(resp)
        chk == CheckResponseConsistency(acct, pulled.results)
    IN IF pulled.err # "nil" \/ chk.err # "nil"
       THEN [fatal |-> TRUE, normalized |-> <<>>, total |-> 0, report |-> reportFile]
       ELSE [fatal |-> FALSE,
             normalized |-> NormalizeResponse(group, month, acct.AccountID, pulled.results),
             total |-> chk.total,
             report |-> reportFile]

pullAwsAccount(acct, group, month, resp, reportFile) ==
    LET pulled == PullData(resp)
        chk == CheckResponseConsistency(acct, pulled.results)
    IN IF pulled.err # "nil"
       THEN [fatal |-> TRUE, normalized |-> <<>>, total |-> 0, report |-> reportFile]
       ELSE [fatal |-> FALSE,
             normalized |-> NormalizeResponse(group, month, acct.AccountID, pulled.results),
             total |-> chk.total,
             report |-> IF chk.err # "nil"
                        THEN writeReport(reportFile, ReportLine(acct.AccountID, "deviation"))
                        ELSE reportFile]

\* what the cost management service answers for one account, and what
\* CmPuller makes of it
CmResponse == [fail : BOOLEAN, total : PullTotals, devErr : BOOLEAN]

\* pullCostManagement
pullCostManagement(reportFile, acct, rows, cm) ==
    IF cm.fail
    THEN [fatal |-> TRUE, csvData |-> rows, total |-> 0, report |-> reportFile]
    ELSE [fatal |-> FALSE,
          csvData |-> Append(rows, [account |-> acct.AccountID, total |-> cm.total]),
          total |-> cm.total,
          report |-> IF cm.devErr
                     THEN writeReport(reportFile, ReportLine(acct.AccountID, "deviation (CM)"))
                     ELSE reportFile]

\* the comparison of the two totals in the "crosscheck" loop of main()
TotalsDiffer(aws, cm) == RoundCents(ParseAmount(aws)) # RoundCents(ParseAmount(cm))

\* Cost Explorer answers the two requests of PullData for the account
AwsAnswers(resp) ==
    /\ step = "askAws"
    /\ awsResponse' = resp
    /\ step' = "pullAws"
    /\ UNCHANGED <<mode, accountList, cur, report, sheetData, csvData,
                   totalAws, totalCM, cmResponse>>
    /\ UNCHANGED <<pipeVars, dirVars, devVars, postVars, runVars, oauthVars>>

\* one turn of the loop of pullAwsByAccount ("aws"), or the first call of a
\* turn of the loop of main() ("crosscheck")
PullAws ==
    /\ step = "pullAws"
    /\ LET r == pullAwsAccount(accountList[cur], "X", Month, awsResponse, report)
       IN IF r.fatal
          THEN /\ step' = "fatal"
               /\ UNCHANGED <<cur, report, sheetData, totalAws>>
          ELSE /\ report' = r.report
               /\ IF mode = "aws"
                  THEN /\ sheetData' = Append(sheetData, r.normalized)
                       /\ cur' = cur + 1
                       /\ step' = IF cur = Len(accountList) THEN "publish" ELSE "askAws"
                       /\ UNCHANGED totalAws
                  ELSE /\ totalAws' = 1000 * r.total
                       /\ step' = "askCM"
                       /\ UNCHANGED <<cur, sheetData>>
    /\ awsResponse' = <<>>
    /\ UNCHANGED <<mode, accountList, csvData, totalCM, cmResponse>>
    /\ UNCHANGED <<pipeVars, dirVars, devVars, postVars, runVars, oauthVars>>

\* the cost management service answers (or fails to answer) CmPuller
CmAnswers(cm) ==
    /\ step = "askCM"
    /\ cmResponse' = cm
    /\ step' = "pullCM"
    /\ UNCHANGED <<mode, accountList, cur, report, sheetData, csvData,
                   totalAws, totalCM, awsResponse>>
    /\ UNCHANGED <<pipeVars, dirVars, devVars, postVars, runVars, oauthVars>>

\* the second call of a turn of the "crosscheck" loop
PullCM ==
    /\ step = "pullCM"
    /\ LET r == pullCostManagement(report, accountList[cur], csvData, cmResponse)
       IN IF r.fatal
          THEN /\ step' = "fatal"
               /\ UNCHANGED <<report, csvData, totalCM>>
          ELSE /\ report' = r.report
               /\ csvData' = r.csvData
               /\ totalCM' = r.total
               /\ step' = "crossCheck"
    /\ cmResponse' = <<>>
    /\ UNCHANGED <<mode, accountList, cur, sheetData, totalAws, awsResponse>>
    /\ UNCHANGED <<pipeVars, dirVars, devVars, postVars, runVars, oauthVars>>

\* the end of a turn of the "crosscheck" loop
CrossCheck ==
    /\ step = "crossCheck"
    /\ report' = IF TotalsDiffer(totalAws, totalCM)
                 THEN writeReport(report, ReportLine(accountList[cur].AccountID, "crosscheck"))
                 ELSE report
    /\ cur' = cur + 1
    /\ step' = IF cur = Len(accountList) THEN "publish" ELSE "askAws"
    /\ UNCHANGED <<mode, accountList, sheetData, csvData, totalAws, totalCM,
                   awsResponse, cmResponse>>
    /\ UNCHANGED <<pipeVars, dirVars, devVars, postVars, runVars, oauthVars>>

\* postToGSheet / writeCsvFromSheet / writeCsv after the loop
Publish ==
    /\ step = "publish"
    /\ step' = "done"
    /\ UNCHANGED <<mode, accountList, cur, report, sheetData, csvData,
                   totalAws, totalCM, awsResponse, cmResponse>>
    /\ UNCHANGED <<pipeVars, dirVars, devVars, postVars, runVars, oauthVars>>

InitPull ==
    /\ PipeIdle
    /\ DirIdle
    /\ DevIdle
    /\ PostIdle
    /\ RunIdle
    /\ OAuthIdle
    /\ mode \in {"aws", "crosscheck"}
    /\ accountList \in AccountLists
    /\ cur = 1
    /\ step = "askAws"
    /\ report = <<>>
    /\ sheetData = <<>>
    /\ csvData = <<>>
    /\ totalAws = 0
    /\ totalCM = 0
    /\ awsResponse = <<>>
    /\ cmResponse = <<>>

NextPull ==
    \/ \E resp \in AwsResponse : AwsAnswers(resp)
    \/ PullAws
    \/ \E cm \in CmResponse : CmAnswers(cm)
    \/ PullCM
    \/ CrossCheck
    \/ Publish

SpecPull == InitPull /\ [][NextPull]_vars

(***************************************************************************)
(* Properties of the loop over the accounts.                               *)
(***************************************************************************)
\* an amount of n thousandths rounded to cents, halves away from zero
DecimalCents(n) == (n + 5) \div 10

CrossCheckLines == {i \in 1..Len(report) : report[i].kind = "crosscheck"}

\* C11: the cross-check writes its report line exactly when the two totals,
\* each rounded to cents with halves away from zero, differ.
C11_MismatchIffCentsDiffer ==
    [][CrossCheck =>
          ((report' # report) <=> (DecimalCents(totalAws) # DecimalCents(totalCM)))]_vars

\* the lines of the report that name an account
LinesOf(rep, id) == {i \in 1..Len(rep) : rep[i].account = id}

\* the deviation check of the account being pulled fails on the answer
DeviationFails ==
    /\ PullData(awsResponse).err = "nil"
    /\ CheckResponseConsistency(accountList[cur], PullData(awsResponse).results).err # "nil"

\* the step leaves the loop running: the run is not ended and the next
\* account, if any, is the next one pulled
LoopGoesOn ==
    /\ step' # "fatal"
    /\ cur' = cur + 1
    /\ step' = IF cur < Len(accountList) THEN "askAws" ELSE "publish"

Breakdown(resp) == IF resp.byTime = 1 THEN resp.groups ELSE EmptyMap

\* the total and the sum of the breakdown differ once rounded to cents
BreakdownDisagrees(resp) ==
    RoundCents(ParseAmount(resp.total)) #
        RoundCents(ParseAmount(1000 * SumSet(Breakdown(resp), DOMAIN Breakdown(resp))))

\* C13: a pull whose total and whose breakdown sum differ after rounding to
\* cents ends the run, and no row is built from it.
C13_DisagreeingPullAborts ==
    [][(PullAws /\ BreakdownDisagrees(awsResponse)) =>
          /\ step' = "fatal"
          /\ sheetData' = sheetData]_vars

(***************************************************************************)
(* The expected values of the bulk ingest.  The accounts file declares a   *)
(* standardvalue and a deviationpercent for an account (AccountEntry);     *)
(* getAccountMetadata copies neither into the directory.                   *)
(***************************************************************************)
DeclaredEntry ==
    [id \in TrackedIds |->
        IF id = "A" THEN [StandardValue |-> 1, DeviationPercent |-> 0]
        ELSE [StandardValue |-> 0, DeviationPercent |-> 0]]

\* C14: when the table of the bulk ingest is about to be published, every
\* account with a row whose declared standard value is positive and whose
\* grid total deviates from it by more than the declared percentage has an
\* entry in the report.
C14_RowsAreDeviationChecked ==
    pc \in {"write", "done"} =>
        \A i \in 2..Len(output) :
            LET a == RowKey(output[i])
            IN (/\ DeclaredEntry[a].StandardValue > 0
                /\ DeviationExceeds(GridTotal(a), DeclaredEntry[a].StandardValue,
                                    DeclaredEntry[a].DeviationPercent))
               => LinesOf(report, a) # {}

(***************************************************************************)
(* getSheetFromCostCells on the grids and directories the ingest can leave *)
(* behind.  A directory key is the canonical form of the declared ID: the  *)
(* key "1-2" stands for a hyphenated key whose entry was declared as "1-2" *)
(* or, without hyphens, as "12"; the key "12" is the same digits declared  *)
(* under a provider without an ID pattern.  The provider label of an entry *)
(* is the one the last record of the account carried (skipAccountEntry).   *)
(***************************************************************************)
SheetKeys == {"1-2", "12", "3"}

DeclaredAs(key) == IF key = "1-2" THEN {"1-2", "12"} ELSE {key}

SheetDirectories ==
    UNION {{d \in [S -> [AccountId : {"1-2", "12", "3"}, CloudProvider : {"AWS", "Amazon"},
                         DataFound : {TRUE}, Group : {"X", "Y"}]] :
               \A k \in S : d[k].AccountId \in DeclaredAs(k)} :
           S \in SUBSET SheetKeys}

\* the amounts of the grid: one category, a different amount for "12"
SheetCells(S) == [k \in S |-> [Compute |-> IF k = "12" THEN 2 ELSE 1]]

SheetMetadata(S) ==
    [k \in S |-> [AccountName |-> "n1", CloudProvider |-> "Amazon", CostCenter |-> "726",
                  PayerAccountId |-> "P", Date |-> Month]]

InitSheet ==
    /\ DirIdle
    /\ DevIdle
    /\ PullIdle
    /\ PostIdle
    /\ RunIdle
    /\ OAuthIdle
    /\ pc = "materialize"
    /\ accountsMetadata \in SheetDirectories
    /\ costCells = SheetCells(DOMAIN accountsMetadata)
    /\ columnHeadsSet = {"Compute"}
    /\ metadata = SheetMetadata(DOMAIN accountsMetadata)
    /\ ignored = {}
    /\ logged = EmptyBag
    /\ fatalMsg = NoFatal
    /\ nCldy = 1
    /\ nIbm = 0
    /\ fetchIbmcloudData = FALSE
    /\ output = <<>>

NextSheet == materialize \/ writeSheet

SpecSheet == InitSheet /\ [][NextSheet]_vars

(***************************************************************************)
(* Properties of the materialized table.                                   *)
(***************************************************************************)
Cell(row, head) == row[Index(FixedHeads, head)].v

\* row a is not after row b: by team, then provider label, then account ID
NotAfter(a, b) ==
    \/ Compare(Cell(a, "Team"), Cell(b, "Team")) < 0
    \/ /\ Cell(a, "Team") = Cell(b, "Team")
       /\ \/ Compare(Cell(a, "Cloud Provider"), Cell(b, "Cloud Provider")) < 0
          \/ /\ Cell(a, "Cloud Provider") = Cell(b, "Cloud Provider")
             /\ Compare(Cell(a, "Account ID"), Cell(b, "Account ID")) <= 0

\* C15: whatever order the grid was enumerated in, the data rows of the
\* table are ordered by team, then by provider label, then by account ID,
\* and there is one row for every account of the grid.
C15_RowsOrderedTeamProviderId ==
    pc \in {"write", "done"} =>
        /\ Len(output) = Cardinality(DOMAIN costCells) + 1
        /\ \A i, j \in 2..Len(output) : i < j => NotAfter(output[i], output[j])

\* three rows; the team order and the provider order disagree, and so do
\* the provider order and the account ID order
C15_Witness ==
    /\ pc = "write"
    /\ Len(output) = 4
    /\ Cell(output[2], "Team") = "X" /\ Cell(output[2], "Cloud Provider") = "Amazon"
    /\ Cell(output[3], "Team") = "Y" /\ Cell(output[3], "Cloud Provider") = "AWS"
    /\ Cell(output[3], "Account ID") = "3"
    /\ Cell(output[4], "Team") = "Y" /\ Cell(output[4], "Cloud Provider") = "Amazon"
    /\ Cell(output[4], "Account ID") = "12"

\* C16: in the finished table the total formula of the data row at position
\* i (the first row below the header being 1) has both ends of its range in
\* spreadsheet row i + 1, the row it is written to, so the range lies in no
\* other account's row.
C16_FormulaRefersToOwnRow ==
    pc \in {"write", "done"} =>
        \A i \in 1..(Len(output) - 1) :
            LET f == output[i + 1][Index(FixedHeads, "TOTAL")]
            IN /\ f.t = "formula"
               /\ f.v.r1 = i + 1
               /\ f.v.r2 = i + 1

\* sorting moved the rows: the row of key "3" precedes the row of key "1-2"
C16_Witness ==
    /\ pc = "write"
    /\ Len(output) = 4
    /\ Cell(output[2], "Account ID") = "3"
    /\ Cell(output[4], "Account ID") = "1-2"
    /\ output[4][Index(FixedHeads, "TOTAL")].v.r1 = 4

\* C17: the table does not depend on the order in which the grid is
\* enumerated: whatever that order, the same table comes out.
C17_OutputIndependentOfOrder ==
    [][materialize =>
          \A order \in Orders(DOMAIN costCells) :
              output' = getSheetFromCostCells(costCells, columnHeadsSet,
                                              accountsMetadata, metadata, order)]_vars

(***************************************************************************)
(* postToGSheet: publishing the materialized table to the spreadsheet.     *)
(* Strings that are searched (sheet names, main-sheet cell texts) are      *)
(* sequences of characters.  A pointer is a sequence of length at most     *)
(* one: <<>> is nil.  The sheet name is what the name template "01" gives  *)
(* for a reference time in August.                                         *)
(***************************************************************************)
NilRef == <<>>

NewSheetName == <<"0", "8">>

MainSheetName == <<"M">>

\* strings.Contains(str, substr)
Contains(str, substr) ==
    \E i \in 0..(Len(str) - Len(substr)) : SubSeq(str, i + 1, i + Len(substr)) = substr

\* the values Spreadsheets.Values.Get can deliver for a cell: an empty
\* string, the sheet name, a formula text naming the sheet, and the number
\* 108, which is not a string although its digits hold the name
MainCellValues ==
    {[t |-> "string", v |-> <<>>],
     [t |-> "string", v |-> NewSheetName],
     [t |-> "string", v |-> <<"=">> \o NewSheetName \o <<"!">>],
     [t |-> "number", v |-> <<"1", "0", "8">>]}

MainRows == 2

MainColumns == 2

MainSheetValues == [1..MainRows -> [1..MainColumns -> MainCellValues]]

\* the spreadsheets Spreadsheets.Get can deliver: with or without the main
\* sheet, and without the sheet of the month or with one whose grid is
\* narrower than the table, of its size, or larger
Spreadsheets(columnCount, rowCount) ==
    LET main == [Title |-> MainSheetName, SheetId |-> 0,
                 ColumnCount |-> MainColumns, RowCount |-> MainRows]
        olds == [Title : {NewSheetName}, SheetId : {5},
                 ColumnCount : {columnCount - 1, columnCount, columnCount + 1},
                 RowCount : {rowCount, rowCount + 1}]
    IN {<<>>, <<main>>} \cup {<<o>> : o \in olds} \cup {<<main, o>> : o \in olds}

getSheetIdFromName(sheets, sheetName) ==
    LET hits == {i \in 1..Len(sheets) : sheets[i].Title = sheetName}
    IN IF hits = {} THEN NilRef
       ELSE <<sheets[CHOOSE i \in hits : \A j \in hits : i <= j]>>

\* the properties in the reply to the AddSheet request
createNewSheet(newSheetName, position, columnCount, rowCount) ==
    [Title |-> newSheetName, SheetId |-> 9,
     ColumnCount |-> columnCount, RowCount |-> rowCount]

getDataGridRange(props) ==
    [EndColumnIndex |-> props.ColumnCount,
     EndRowIndex |-> props.RowCount,
     SheetId |-> props.SheetId,
     StartColumnIndex |-> 0,
     StartRowIndex |-> 0]

\* the anchor search of a variant that falls back to the top left cell
getNewSheetReference_Default(cells, mainSheetID, newSheetName, rowCount) ==
    LET hits == {rc \in (1..Len(cells)) \X (1..MainColumns) :
                    /\ rc[2] <= Len(cells[rc[1]])
                    /\ cells[rc[1]][rc[2]].t = "string"
                    /\ Contains(cells[rc[1]][rc[2]].v, newSheetName)}
        first == IF hits = {} THEN <<1, 1>>
                 ELSE CHOOSE rc \in hits :
                        \A o \in hits : rc[1] < o[1] \/ (rc[1] = o[1] /\ rc[2] <= o[2])
        msColumn == first[2] - 1
        msRow == (first[1] - 1) + 1
    IN <<[EndColumnIndex |-> msColumn + 1,
          EndRowIndex |-> msRow + rowCount + 1,
          SheetId |-> mainSheetID,
          StartColumnIndex |-> msColumn,
          StartRowIndex |-> msRow]>>

\* the loops run over zero-based r and c; cells is indexed from 1 here
getNewSheetReference(cells, mainSheetID, newSheetName, rowCount) ==
    LET hits == {rc \in (1..Len(cells)) \X (1..MainColumns) :
                    /\ rc[2] <= Len(cells[rc[1]])
                    /\ cells[rc[1]][rc[2]].t = "string"
                    /\ Contains(cells[rc[1]][rc[2]].v, newSheetName)}
    IN IF hits = {} THEN NilRef
       ELSE LET first == CHOOSE rc \in hits :
                           \A o \in hits : rc[1] < o[1] \/ (rc[1] = o[1] /\ rc[2] <= o[2])
                msColumn == first[2] - 1
                msRow == (first[1] - 1) + 1
            IN <<[EndColumnIndex |-> msColumn + 1,
                  EndRowIndex |-> msRow + rowCount + 1,
                  SheetId |-> mainSheetID,
                  StartColumnIndex |-> msColumn,
                  StartRowIndex |-> msRow]>>

\* a first batch that pastes the new data range over the anchor range
loadNewData_PasteFromData(rows, newSheetRef, mainRef) ==
    <<[kind |-> "UpdateCells", range |-> newSheetRef, rows |-> rows],
      [kind |-> "CopyPaste", source |-> newSheetRef, destination |-> mainRef]>>

\* the requests of loadNewData's first batch
loadNewData(rows, newSheetRef, mainRef) ==
    <<[kind |-> "UpdateCells", range |-> newSheetRef, rows |-> rows],
      [kind |-> "CopyPaste", source |-> mainRef, destination |-> mainRef]>>

\* srv.Spreadsheets.Get(...).Do()
GetSpreadsheet(ok) ==
    /\ postPc = "get"
    /\ IF ok
       THEN /\ sheetObject' \in Spreadsheets(Len(output[1]), Len(output))
            /\ postPc' = "locate"
       ELSE /\ postPc' = "fatal"
            /\ UNCHANGED sheetObject
    /\ UNCHANGED <<mainCells, requests, newDataRef, mainSheetRef>>
    /\ UNCHANGED <<pipeVars, dirVars, devVars, pullVars, runVars, oauthVars>>

\* newDataRef := getUpdateLocation(srv, sheetObject, newSheetName, ...)
getUpdateLocation(ok) ==
    /\ postPc = "locate"
    /\ LET newSheetProperties == getSheetIdFromName(sheetObject, NewSheetName)
           added == createNewSheet(NewSheetName, Len(sheetObject),
                                   Len(output[1]), Len(output))
       IN IF newSheetProperties = NilRef
          THEN /\ requests' = Append(requests, [kind |-> "AddSheet",
                                                position |-> Len(sheetObject),
                                                properties |-> added])
               /\ IF ok
                  THEN /\ newDataRef' = <<getDataGridRange(added)>>
                       /\ postPc' = "anchor"
                  ELSE /\ postPc' = "fatal"
                       /\ UNCHANGED newDataRef
          ELSE /\ ok
               /\ newDataRef' = <<getDataGridRange(newSheetProperties[1])>>
               /\ postPc' = "anchor"
               /\ UNCHANGED requests
    /\ UNCHANGED <<sheetObject, mainCells, mainSheetRef>>
    /\ UNCHANGED <<pipeVars, dirVars, devVars, pullVars, runVars, oauthVars>>

\* the main sheet is looked up, its values are fetched and searched
FetchMainSheet(ok, cells) ==
    /\ postPc = "anchor"
    /\ LET mainSheetProperties == getSheetIdFromName(sheetObject, MainSheetName)
       IN IF mainSheetProperties = NilRef \/ ~ok
          THEN /\ postPc' = "fatal"
               /\ cells = [r \in 1..MainRows |-> [c \in 1..MainColumns |->
                                                     [t |-> "string", v |-> <<>>]]]
               /\ UNCHANGED <<mainCells, mainSheetRef>>
          ELSE LET ref == getNewSheetReference(cells, mainSheetProperties[1].SheetId,
                                               NewSheetName, Len(output))
               IN /\ mainCells' = cells
                  /\ mainSheetRef' = ref
                  /\ postPc' = IF ref = NilRef THEN "fatal" ELSE "load"
    /\ UNCHANGED <<sheetObject, requests, newDataRef>>
    /\ UNCHANGED <<pipeVars, dirVars, devVars, pullVars, runVars, oauthVars>>

\* a batch whose error is not looked at
LoadNewData_IgnoreError(ok) ==
    /\ postPc = "load"
    /\ requests' = requests \o loadNewData(output, newDataRef[1], mainSheetRef[1])
    /\ postPc' = "resize"
    /\ UNCHANGED <<sheetObject, mainCells, newDataRef, mainSheetRef>>
    /\ UNCHANGED <<pipeVars, dirVars, devVars, pullVars, runVars, oauthVars>>

\* loadNewData: the batch of UpdateCells and CopyPaste
LoadNewData(ok) ==
    /\ postPc = "load"
    /\ requests' = requests \o loadNewData(output, newDataRef[1], mainSheetRef[1])
    /\ postPc' = IF ok THEN "resize" ELSE "fatal"
    /\ UNCHANGED <<sheetObject, mainCells, newDataRef, mainSheetRef>>
    /\ UNCHANGED <<pipeVars, dirVars, devVars, pullVars, runVars, oauthVars>>

\* loadNewData: the AutoResizeDimensions request
AutoResize(ok) ==
    /\ postPc = "resize"
    /\ requests' = Append(requests, [kind |-> "AutoResizeDimensions",
                                     dimension |-> "COLUMNS",
                                     sheetId |-> newDataRef[1].SheetId])
    /\ postPc' = IF ok THEN "done" ELSE "fatal"
    /\ UNCHANGED <<sheetObject, mainCells, newDataRef, mainSheetRef>>
    /\ UNCHANGED <<pipeVars, dirVars, devVars, pullVars, runVars, oauthVars>>

\* the tables writeSheet hands over: none, one or two accounts
PostKeys == {"12", "3"}

InitPost ==
    /\ DirIdle
    /\ DevIdle
    /\ PullIdle
    /\ RunIdle
    /\ OAuthIdle
    /\ pc = "post"
    /\ \E S \in SUBSET PostKeys :
          /\ accountsMetadata = [k \in S |-> [AccountId |-> k, CloudProvider |-> "AWS",
                                              DataFound |-> TRUE, Group |-> "X"]]
          /\ costCells = SheetCells(S)
          /\ metadata = SheetMetadata(S)
          /\ \E order \in Orders(S) :
                output = getSheetFromCostCells(SheetCells(S), {"Compute"},
                                               accountsMetadata, SheetMetadata(S), order)
    /\ columnHeadsSet = {"Compute"}
    /\ ignored = {}
    /\ logged = EmptyBag
    /\ fatalMsg = NoFatal
    /\ nCldy = 1
    /\ nIbm = 0
    /\ fetchIbmcloudData = FALSE
    /\ postPc = "get"
    /\ sheetObject = <<>>
    /\ mainCells = <<>>
    /\ requests = <<>>
    /\ newDataRef = NilRef
    /\ mainSheetRef = NilRef

NextPost ==
    \/ \E ok \in BOOLEAN : GetSpreadsheet(ok)
    \/ \E ok \in BOOLEAN : getUpdateLocation(ok)
    \/ \E ok \in BOOLEAN : \E cells \in MainSheetValues : FetchMainSheet(ok, cells)
    \/ \E ok \in BOOLEAN : LoadNewData(ok)
    \/ \E ok \in BOOLEAN : AutoResize(ok)

SpecPost == InitPost /\ [][NextPost]_vars

(***************************************************************************)
(* Properties of the publication.                                          *)
(***************************************************************************)
\* the cells of the fetched main sheet whose text matches the sheet name,
\* as <<row, column>> counted from 1
Matches ==
    {rc \in (1..Len(mainCells)) \X (1..MainColumns) :
        /\ mainCells[rc[1]][rc[2]].t = "string"
        /\ Contains(mainCells[rc[1]][rc[2]].v, NewSheetName)}

FirstMatch ==
    CHOOSE rc \in Matches :
        \A o \in Matches : rc[1] < o[1] \/ (rc[1] = o[1] /\ rc[2] <= o[2])

\* the data rows of the materialized table: every row but the header
DataRows == Len(output) - 1

\* C18: the indirect-reference range lies in the column of the first
\* matching cell of the main sheet (rows top-down, cells left to right),
\* is one column wide, starts in the row right below that cell, and spans
\* exactly as many rows as the table has data rows, the header not counted.
C18_RangeSpansTheDataRows ==
    mainSheetRef # NilRef =>
        LET ref == mainSheetRef[1]
        IN /\ ref.StartColumnIndex = FirstMatch[2] - 1
           /\ ref.EndColumnIndex = ref.StartColumnIndex + 1
           /\ ref.StartRowIndex = FirstMatch[1]
           /\ ref.EndRowIndex - ref.StartRowIndex = DataRows

\* the data requests of loadNewData among the requests issued so far
DataRequests ==
    {i \in 1..Len(requests) :
        requests[i].kind \in {"UpdateCells", "CopyPaste", "AutoResizeDimensions"}}

\* C19: once the main sheet has been fetched and none of its cells matches
\* the sheet name, the run has ended with a fatal error, and no cell-data
\* write, self-paste or column auto-resize request has been issued.
C19_NoAnchorIsFatal ==
    (mainCells # <<>> /\ Matches = {}) =>
        /\ postPc = "fatal"
        /\ mainSheetRef = NilRef
        /\ DataRequests = {}

\* the anchor is missing although a cell holds a number whose digits contain
\* the name; the sheet of the month had already been added when the run ended
C19_Witness ==
    /\ postPc = "fatal"
    /\ mainCells # <<>>
    /\ Matches = {}
    /\ \E r \in 1..MainRows, c \in 1..MainColumns : mainCells[r][c].t = "number"
    /\ Len(requests) = 1
    /\ requests[1].kind = "AddSheet"

\* C20: when the sheet of the month already exists, the cell-data write
\* starts below the header row and ends before the sheet's last column,
\* the one reserved for the totals.
C20_OverwriteSkipsHeaderAndTotals ==
    \A i \in 1..Len(requests) :
        (/\ requests[i].kind = "UpdateCells"
         /\ getSheetIdFromName(sheetObject, NewSheetName) # NilRef) =>
            LET props == getSheetIdFromName(sheetObject, NewSheetName)[1]
            IN /\ requests[i].range.StartRowIndex >= 1
               /\ requests[i].range.EndColumnIndex <= props.ColumnCount - 1

\* the requests of one kind among the requests issued so far
RequestsOf(kind) == {i \in 1..Len(requests) : requests[i].kind = kind}

\* what a CopyPaste request with PASTE_NORMAL does to the values of the
\* main sheet: the cell at an offset in the destination takes the value at
\* the same offset in the source, as far as both lie in the fetched grid
Pasted(cells, req) ==
    [r \in 1..Len(cells) |-> [c \in 1..Len(cells[r]) |->
        LET sr == (r - 1) - req.destination.StartRowIndex + req.source.StartRowIndex + 1
            sc == (c - 1) - req.destination.StartColumnIndex + req.source.StartColumnIndex + 1
        IN IF /\ r - 1 >= req.destination.StartRowIndex
              /\ r - 1 < req.destination.EndRowIndex
              /\ c - 1 >= req.destination.StartColumnIndex
              /\ c - 1 < req.destination.EndColumnIndex
              /\ sr \in 1..Len(cells)
              /\ sc \in 1..Len(cells[r])
           THEN cells[sr][sc]
           ELSE cells[r][c]]]

\* C21: a run issues at most one paste request, and exactly one once the
\* first batch of loadNewData has been sent; its destination is its source,
\* both being the anchor range found in the main sheet, so that applying it
\* leaves the values of the main sheet as they were.
C21_SelfPasteChangesNothing ==
    /\ Cardinality(RequestsOf("CopyPaste")) <= 1
    /\ postPc \in {"resize", "done"} => Cardinality(RequestsOf("CopyPaste")) = 1
    /\ \A i \in RequestsOf("CopyPaste") :
          /\ requests[i].destination = requests[i].source
          /\ requests[i].source = mainSheetRef[1]
          /\ Pasted(mainCells, requests[i]) = mainCells

\* the paste has been issued for an anchor in the second column, whose
\* range covers a cell of the fetched grid
C21_Witness ==
    /\ postPc = "resize"
    /\ Cardinality(RequestsOf("CopyPaste")) = 1
    /\ mainSheetRef[1].StartColumnIndex = 1
    /\ mainSheetRef[1].StartRowIndex = 1
    /\ mainCells[1][2] # mainCells[2][2]

\* C22: the cell-data write comes right before the self-paste, the column
\* auto-resize comes after both and is issued only from the position that
\* the successful batch leads to; a failed batch ends the run, and an ended
\* run issues nothing more.
C22_ResizeFollowsSuccessfulWrite ==
    /\ [](\A i \in RequestsOf("CopyPaste") :
             i > 1 /\ requests[i - 1].kind = "UpdateCells")
    /\ [](\A i \in RequestsOf("AutoResizeDimensions") :
             /\ \E j \in RequestsOf("UpdateCells") : j < i
             /\ \E j \in RequestsOf("CopyPaste") : j < i)
    /\ [][RequestsOf("AutoResizeDimensions")' # RequestsOf("AutoResizeDimensions")
             => postPc = "resize"]_vars
    /\ [][postPc' = "resize" => LoadNewData(TRUE)]_vars
    /\ [][LoadNewData(FALSE) => postPc' = "fatal"]_vars
    /\ [][postPc # "fatal"]_vars

\* a whole run: sheet added, data written, anchor pasted, columns resized
C22_Witness ==
    /\ postPc = "done"
    /\ Len(requests) = 4
    /\ requests[1].kind = "AddSheet"
    /\ requests[2].kind = "UpdateCells"
    /\ requests[3].kind = "CopyPaste"
    /\ requests[4].kind = "AutoResizeDimensions"

(***************************************************************************)
(* main() of the bulk mode with the spreadsheet as output, as far as it    *)
(* reads the configuration and talks to the network.  A key of a section   *)
(* is written "section.key"; a section name alone is the key of the        *)
(* "configuration" section of the accounts file.                           *)
(***************************************************************************)
ConfigKeys ==
    {"oauth", "gsheet", "cloudability", "ibmcloud",
     "cloudability.api", "cloudability.api_key", "cloudability.api_key_pair",
     "cloudability.environmentId",
     "ibmcloud.account_id", "ibmcloud.api_key",
     "gsheet.sheetNameTemplate", "gsheet.spreadsheetId", "gsheet.mainSheetName"}

\* getMapKeyValue(configMap, key, section) with a section name: the key is
\* there, or the program exits
getMapKeyValue(configMap, key) == key \in configMap

Request(service, what) == [service |-> service, request |-> what]

\* main(): loadAccountsFile, the two sections, getAccountMetadata
LoadAccountsFile ==
    /\ runPc = "load"
    /\ runPc' = IF configuration = {} \/ malformed THEN "configError" ELSE "output"
    /\ UNCHANGED <<configuration, malformed, network>>
    /\ UNCHANGED <<pipeVars, dirVars, devVars, pullVars, postVars, oauthVars>>

\* newOutputObject, output type "gsheet"
newOutputObject ==
    /\ runPc = "output"
    /\ IF ~getMapKeyValue(configuration, "oauth")
       THEN /\ runPc' = "configError"
            /\ UNCHANGED network
       ELSE /\ network' = Append(network, Request("oauth", "token"))
            /\ runPc' = IF ~getMapKeyValue(configuration, "gsheet") THEN "configError"
                        ELSE IF "cloudability" \in configuration THEN "cloudability"
                        ELSE "scoped"
    /\ UNCHANGED <<configuration, malformed>>
    /\ UNCHANGED <<pipeVars, dirVars, devVars, pullVars, postVars, oauthVars>>

\* getCloudabilityData, with getApptioOpentoken when there is no "api_key"
getCloudabilityData(ok) ==
    /\ runPc = "cloudability"
    /\ IF ~getMapKeyValue(configuration, "cloudability.api")
       THEN /\ runPc' = "configError"
            /\ UNCHANGED network
       ELSE IF "cloudability.api_key" \in configuration
       THEN /\ network' = Append(network, Request("cloudability", "report"))
            /\ runPc' = IF ~ok THEN "ioError"
                        ELSE IF "ibmcloud" \in configuration THEN "ibmcloud" ELSE "post"
       ELSE IF ~getMapKeyValue(configuration, "cloudability.api_key_pair")
       THEN /\ runPc' = "configError"
            /\ UNCHANGED network
       ELSE IF ~getMapKeyValue(configuration, "cloudability.environmentId")
       THEN /\ ok
            /\ network' = Append(network, Request("cloudability", "apikeylogin"))
            /\ runPc' = "configError"
       ELSE /\ network' = network \o <<Request("cloudability", "apikeylogin"),
                                       Request("cloudability", "report")>>
            /\ runPc' = IF ~ok THEN "ioError"
                        ELSE IF "ibmcloud" \in configuration THEN "ibmcloud" ELSE "post"
    /\ UNCHANGED <<configuration, malformed>>
    /\ UNCHANGED <<pipeVars, dirVars, devVars, pullVars, postVars, oauthVars>>

\* getIbmcloudData
getIbmcloudData(ok) ==
    /\ runPc = "ibmcloud"
    /\ IF \/ ~getMapKeyValue(configuration, "ibmcloud.account_id")
          \/ ~getMapKeyValue(configuration, "ibmcloud.api_key")
       THEN /\ runPc' = "configError"
            /\ UNCHANGED network
       ELSE /\ network' = Append(network, Request("ibmcloud", "usage"))
            /\ runPc' = IF ok THEN "post" ELSE "ioError"
    /\ UNCHANGED <<configuration, malformed>>
    /\ UNCHANGED <<pipeVars, dirVars, devVars, pullVars, postVars, oauthVars>>

\* postToGSheet up to the lookup of the main sheet; added says that the
\* sheet of the month was missing and is created by getUpdateLocation
postToGSheet(ok, added) ==
    /\ runPc = "post"
    /\ IF \/ ~getMapKeyValue(configuration, "gsheet.sheetNameTemplate")
          \/ ~getMapKeyValue(configuration, "gsheet.spreadsheetId")
       THEN /\ runPc' = "configError"
            /\ UNCHANGED network
       ELSE IF ~ok
       THEN /\ network' = Append(network, Request("sheets", "Get"))
            /\ runPc' = "ioError"
       ELSE /\ network' = network \o <<Request("sheets", "Get")>>
                            \o (IF added THEN <<Request("sheets", "AddSheet")>> ELSE <<>>)
            /\ runPc' = IF ~getMapKeyValue(configuration, "gsheet.mainSheetName")
                        THEN "configError" ELSE "sync"
    /\ UNCHANGED <<configuration, malformed>>
    /\ UNCHANGED <<pipeVars, dirVars, devVars, pullVars, postVars, oauthVars>>

InitRun ==
    /\ PipeIdle
    /\ DirIdle
    /\ DevIdle
    /\ PullIdle
    /\ PostIdle
    /\ OAuthIdle
    /\ runPc = "load"
    /\ configuration \in SUBSET ConfigKeys
    /\ malformed \in BOOLEAN
    /\ network = <<>>

NextRun ==
    \/ LoadAccountsFile
    \/ newOutputObject
    \/ \E ok \in BOOLEAN : getCloudabilityData(ok)
    \/ \E ok \in BOOLEAN : getIbmcloudData(ok)
    \/ \E ok \in BOOLEAN : \E added \in BOOLEAN : postToGSheet(ok, added)

SpecRun == InitRun /\ [][NextRun]_vars

\* C23: a run that has ended on a configuration error (a malformed account
\* ID or a missing required key) has issued no request to a billing source
\* or to the spreadsheet service.
C23_ConfigErrorsBeforeNetwork ==
    runPc = "configError" =>
        \A i \in 1..Len(network) :
            network[i].service \notin {"cloudability", "ibmcloud", "sheets"}

(***************************************************************************)
(* Properties of the ingest of the two bulk sources.                       *)
(***************************************************************************)
\* the display metadata a record carries
CarriedMetadata(rec) ==
    [AccountName |-> rec.AccountName,
     CloudProvider |-> rec.CloudProvider,
     CostCenter |-> rec.CostCenter,
     Date |-> Month,
     PayerAccountId |-> rec.PayerAccountId]

\* what ingesting rec may do to the metadata: nothing, or note what rec
\* carries for an account that had no metadata yet
NotesFirstOnly(rec) ==
    /\ DOMAIN metadata' \subseteq DOMAIN metadata \cup {rec.AccountID}
    /\ rec.AccountID \in DOMAIN metadata' \ DOMAIN metadata =>
          metadata'[rec.AccountID] = CarriedMetadata(rec)
    /\ (rec.AccountID \in DOMAIN accountsMetadata /\ pc' # "fatal") =>
          rec.AccountID \in DOMAIN metadata'

\* C24: the metadata of an account is what the first record that was not
\* dropped carried for it: a step never changes the metadata an account
\* already has, and a record gives metadata only to its own account, namely
\* the values it carries, when the account had none.
C24_MetadataFromFirstRecord ==
    [][/\ \A a \in DOMAIN metadata :
             a \in DOMAIN metadata' /\ metadata'[a] = metadata[a]
       /\ \A e \in ResultsEntry : CldyRecord(e) => NotesFirstOnly(e)
       /\ \A s \in IbmcResultsEntry : IbmAccount(s) => NotesFirstOnly(s)]_vars

\* two records of account A were ingested; the provider label of the
\* directory follows the second, the metadata still has that of the first
C24_Witness ==
    /\ "A" \in DOMAIN metadata
    /\ "A" \in DOMAIN costCells
    /\ DOMAIN costCells["A"] = {"Compute", "Storage"}
    /\ metadata["A"].CloudProvider = "Amazon"
    /\ accountsMetadata["A"].CloudProvider = "IBMCloud"

\* the data rows of the table that show the declared ID of directory entry k
RowsOfEntry(k) ==
    {i \in 2..Len(output) :
        output[i][Index(FixedHeads, "Account ID")].v = accountsMetadata[k].AccountId}

\* C26: once the table is materialized, every directory entry is either
\* matched, with exactly one data row and no missing-account warning, or
\* unmatched, with exactly one missing-account warning and no row; and the
\* table has one row per account of the grid, all of them directory entries.
C26_EntriesMatchedOrReported ==
    /\ DOMAIN costCells \subseteq DOMAIN accountsMetadata
    /\ pc \in {"write", "done"} =>
          /\ \A k \in DOMAIN accountsMetadata :
                \/ /\ accountsMetadata[k].DataFound
                   /\ Cardinality(RowsOfEntry(k)) = 1
                   /\ CopiesIn(MissingWarning(k), logged) = 0
                \/ /\ ~accountsMetadata[k].DataFound
                   /\ RowsOfEntry(k) = {}
                   /\ CopiesIn(MissingWarning(k), logged) = 1
          /\ Len(output) - 1 = Cardinality(DOMAIN costCells)
          /\ \A i \in 2..Len(output) : \E k \in DOMAIN accountsMetadata : i \in RowsOfEntry(k)

\* the table is there; A was matched by IBM Cloud and has the only row, B
\* was matched by no source, and a record of the unknown account U was dropped
C26_Witness ==
    /\ pc = "write"
    /\ DOMAIN accountsMetadata = {"A", "B"}
    /\ accountsMetadata["A"].DataFound
    /\ ~accountsMetadata["B"].DataFound
    /\ Len(output) = 2
    /\ nIbm = 2
    /\ CopiesIn(NotTracked("IBM Cloud", "U"), logged) = 1

\* C27: an IBM Cloud account summary never adds to a row the grid already
\* has: if its account has a row, whichever source made it, the run ends
\* with a fatal error and the grid stays as it is; otherwise the new row
\* holds the sums of the resources of this one summary, and no other row
\* changes.
C27_IbmNeverAddsToExistingRow ==
    [][\A s \in IbmcResultsEntry : IbmAccount(s) =>
          /\ \A a \in DOMAIN costCells :
                a \in DOMAIN costCells' /\ costCells'[a] = costCells[a]
          /\ (s.AccountID \in DOMAIN costCells) =>
                /\ pc' = "fatal"
                /\ fatalMsg'.kind = "Cost cell row already exists"
                /\ costCells' = costCells
          /\ (s.AccountID \in DOMAIN costCells' \ DOMAIN costCells) =>
                costCells'[s.AccountID] = Accumulate(EmptyMap, s.AccountResources, 1)]_vars

\* the run ended on the second summary of account A, whose row the first
\* summary had made out of two resources of one bucket
C27_Witness ==
    /\ pc = "fatal"
    /\ fatalMsg.kind = "Cost cell row already exists"
    /\ fatalMsg.account = "A"
    /\ nIbm = 2
    /\ costCells["A"] = [Storage |-> 3]

\* what a record of an account that the directory does not have may change
DroppedRecordFrame(rec) ==
    rec.AccountID \notin DOMAIN accountsMetadata =>
        /\ costCells' = costCells
        /\ columnHeadsSet' = columnHeadsSet
        /\ metadata' = metadata
        /\ accountsMetadata' = accountsMetadata
        /\ ignored' = ignored \cup {rec.AccountID}
        /\ pc' = pc

\* C30: ingesting a record whose account ID is not in the directory leaves
\* the grid, the category set, the per-account metadata and every directory
\* entry as they were; the record's ID joins the warning-dedupe set.
C30_DroppedRecordChangesNothing ==
    [][/\ \A e \in ResultsEntry : CldyRecord(e) => DroppedRecordFrame(e)
       /\ \A s \in IbmcResultsEntry : IbmAccount(s) => DroppedRecordFrame(s)]_vars

\* a record of the unknown account U was dropped in the IBM Cloud pass after
\* a record of A had filled the grid in the Cloudability pass
C30_Witness ==
    /\ pc = "ibm"
    /\ nIbm = 1
    /\ ignored = {"U"}
    /\ DOMAIN costCells = {"A"}
    /\ DOMAIN metadata = {"A"}
    /\ columnHeadsSet = {"Compute"}

\* C28: in a table with at least one data row, whether or not any category
\* was discovered, the range of each row's total formula starts at the
\* first column after the TOTAL column, ends at the last column of the
\* header, is not reversed, and does not contain the TOTAL column.
C28_TotalRangeIsCategoryColumns ==
    pc \in {"write", "done"} =>
        \A i \in 2..Len(output) :
            LET tc == Index(FixedHeads, "TOTAL") - 1     \* zero-based
                f == output[i][tc + 1].v
                startCol == RefToColNum(f.c1)
                endCol == RefToColNum(f.c2)
            IN /\ startCol = tc + 1
               /\ endCol = Len(output[1]) - 1
               /\ startCol <= endCol
               /\ tc \notin startCol..endCol

\* C29: the range of every cell-data write has at least as many rows and
\* columns as the table it carries, header included, whether the sheet of
\* the month was just created or was there before.
C29_WriteRangeHoldsTheTable ==
    \A i \in RequestsOf("UpdateCells") :
        LET range == requests[i].range
            rows == requests[i].rows
        IN /\ range.EndRowIndex - range.StartRowIndex >= Len(rows)
           /\ range.EndColumnIndex - range.StartColumnIndex >= Len(rows[1])

(***************************************************************************)
(* redirectListener: main calls server.ListenAndServe, which serves every  *)
(* request in a goroutine of its own; the handler assigns queryParams,     *)
(* answers, and starts requestShutdown in one more goroutine.              *)
(* server.Shutdown first closes the listeners, upon which ListenAndServe   *)
(* returns http.ErrServerClosed at once, and then waits until no request   *)
(* is being served before it returns itself.                               *)
(***************************************************************************)
MaxRequests == 3

Requesters == 1..MaxRequests

\* the query of a request: the redirect of the authorization, and a request
\* without a code (a browser asking for another path of the same host)
Query(r) == IF r = 1 THEN [state |-> "s", code |-> "c"] ELSE [state |-> "", code |-> ""]

NilValues == <<>>

\* the listener accepts a connection and calls the handler for its request
Accept(r) ==
    /\ listenerPc = "serve"
    /\ server = "listening"
    /\ handler[r] = "none"
    /\ handler' = [handler EXCEPT ![r] = "called"]
    /\ UNCHANGED <<listenerPc, server, shutdown, queryParams, returnedParams>>
    /\ UNCHANGED <<pipeVars, dirVars, devVars, pullVars, postVars, runVars>>

\* queryParams = r.URL.Query()
HandleRequest(r) ==
    /\ handler[r] = "called"
    /\ queryParams' = <<Query(r)>>
    /\ handler' = [handler EXCEPT ![r] = "assigned"]
    /\ UNCHANGED <<listenerPc, server, shutdown, returnedParams>>
    /\ UNCHANGED <<pipeVars, dirVars, devVars, pullVars, postVars, runVars>>

\* handleRedirectResponse(w, queryParams): the answer to the browser
handleRedirectResponse(r) ==
    /\ handler[r] = "assigned"
    /\ handler' = [handler EXCEPT ![r] = "answered"]
    /\ UNCHANGED <<listenerPc, server, shutdown, queryParams, returnedParams>>
    /\ UNCHANGED <<pipeVars, dirVars, devVars, pullVars, postVars, runVars>>

\* go requestShutdown(&server), and the handler returns
StartShutdown(r) ==
    /\ handler[r] = "answered"
    /\ handler' = [handler EXCEPT ![r] = "done"]
    /\ shutdown' = [shutdown EXCEPT ![r] = "started"]
    /\ UNCHANGED <<listenerPc, server, queryParams, returnedParams>>
    /\ UNCHANGED <<pipeVars, dirVars, devVars, pullVars, postVars, runVars>>

\* requestShutdown: server.Shutdown closes the listeners
requestShutdown(r) ==
    /\ shutdown[r] = "started"
    /\ shutdown' = [shutdown EXCEPT ![r] = "waiting"]
    /\ server' = IF server = "listening" THEN "closing" ELSE server
    /\ UNCHANGED <<listenerPc, handler, queryParams, returnedParams>>
    /\ UNCHANGED <<pipeVars, dirVars, devVars, pullVars, postVars, runVars>>

\* requestShutdown: server.Shutdown returns once no request is being served
ShutdownReturns(r) ==
    /\ shutdown[r] = "waiting"
    /\ \A q \in Requesters : handler[q] \in {"none", "done"}
    /\ shutdown' = [shutdown EXCEPT ![r] = "returned"]
    /\ server' = "closed"
    /\ UNCHANGED <<listenerPc, handler, queryParams, returnedParams>>
    /\ UNCHANGED <<pipeVars, dirVars, devVars, pullVars, postVars, runVars>>

\* server.ListenAndServe returns http.ErrServerClosed; return queryParams
redirectListener ==
    /\ listenerPc = "serve"
    /\ server \in {"closing", "closed"}
    /\ listenerPc' = "returned"
    /\ returnedParams' = queryParams
    /\ UNCHANGED <<server, handler, shutdown, queryParams>>
    /\ UNCHANGED <<pipeVars, dirVars, devVars, pullVars, postVars, runVars>>

\* server.ListenAndServe fails to listen: log.Fatalf
ListenFails ==
    /\ listenerPc = "serve"
    /\ server = "listening"
    /\ \A q \in Requesters : handler[q] = "none"
    /\ listenerPc' = "fatal"
    /\ server' = "closed"
    /\ UNCHANGED <<handler, shutdown, queryParams, returnedParams>>
    /\ UNCHANGED <<pipeVars, dirVars, devVars, pullVars, postVars, runVars>>

InitOAuth ==
    /\ PipeIdle
    /\ DirIdle
    /\ DevIdle
    /\ PullIdle
    /\ PostIdle
    /\ RunIdle
    /\ listenerPc = "serve"
    /\ server = "listening"
    /\ handler = [r \in Requesters |-> "none"]
    /\ shutdown = [r \in Requesters |-> "none"]
    /\ queryParams = NilValues
    /\ returnedParams = NilValues

NextOAuth ==
    \/ \E r \in Requesters : Accept(r)
    \/ \E r \in Requesters : HandleRequest(r)
    \/ \E r \in Requesters : handleRedirectResponse(r)
    \/ \E r \in Requesters : StartShutdown(r)
    \/ \E r \in Requesters : requestShutdown(r)
    \/ \E r \in Requesters : ShutdownReturns(r)
    \/ redirectListener
    \/ ListenFails

SpecOAuth == InitOAuth /\ [][NextOAuth]_vars

\* C25: when redirectListener has returned, one request has been served,
\* every shutdown a handler started has completed, no handler is running,
\* and the returned query is that of a request a handler received.
C25_ListenerTornDownOnReturn ==
    listenerPc = "returned" =>
        /\ Cardinality({r \in Requesters : handler[r] # "none"}) = 1
        /\ \A r \in Requesters : handler[r] \in {"none", "done"}
        /\ \A r \in Requesters : shutdown[r] \in {"none", "returned"}
        /\ server = "closed"
        /\ \E r \in Requesters : handler[r] # "none" /\ returnedParams = <<Query(r)>>

====
